---------------------------- MODULE Spec2Model ----------------------------
(***************************************************************************)
(* Five nodes of the analysis engine:                                      *)
(*   Altitude AAL (derived_parameters.py, class AltitudeAAL),              *)
(*   Vertical Speed Inertial (derived_parameters.py, class                 *)
(*   VerticalSpeedInertial), and from multistate_parameters.py             *)
(*   Stable Approach (class StableApproach), Gear Up Selected (class       *)
(*   GearUpSelected) and Thrust Reversers (class ThrustReversers).         *)
(* Each has its own variables; a behaviour runs one of them.               *)
(*                                                                         *)
(* Heights of Altitude AAL and of Vertical Speed Inertial are integers in  *)
(* tenths of a foot, so that the 0.1 ft edge of                            *)
(* the radio band is the integer 1.  A sample of a numpy masked array is a *)
(* record [ok, v]: ok = FALSE is a masked sample.  Arrays are functions    *)
(* over 0 .. len-1, indexed as in the Python source.                       *)
(***************************************************************************)
EXTENDS Integers, Sequences, FiniteSets, TLC

Ft(x) == 10 * x

------------------------------------------------------------------------------
(* Bounds of the model                                                      *)

NumSamples == 5
MaxFast == 2
RadioSamples == 5
RadWindow == 2
DipSamples == 3
MaskSamples == 4
RunSamples == 5

\* samples of a run with two bands of radio altitude below 100 ft
TouchSamples == 9
InertialSamples == 9
CascadeSamples == 2
CarrySamples == 4
LandingSamples == 13
GearSamples == 5
ReverserSamples == 2

------------------------------------------------------------------------------
(* Program constants                                                        *)

RALT_MIN == 1
RALT_MAX == Ft(100)
OVER_GND_CLEARANCE == Ft(100)
BOUNCED_LANDING_THRESHOLD == Ft(35)
SENSOR_DISAGREEMENT == Ft(10000)
LINK_SCAN == 60
HIGH_DIP_OFFSET == Ft(1000)
MIN_STEP == Ft(500)

------------------------------------------------------------------------------
(* numpy masked-array samples and arrays                                    *)

masked == [ok |-> FALSE, v |-> 0]

Valid(x) == [ok |-> TRUE, v |-> x]

Min2(a, b) == IF a <= b THEN a ELSE b

Max2(a, b) == IF a >= b THEN a ELSE b

ALen(a) == Cardinality(DOMAIN a)

EmptyArray == [i \in {} |-> masked]

\* a - b on masked samples: masked when either operand is masked
MaSub(a, b) == IF a.ok /\ b.ok THEN Valid(a.v - b.v) ELSE masked

\* array - scalar
MaSubScalar(a, s) == [i \in DOMAIN a |-> IF a[i].ok THEN Valid(a[i].v - s) ELSE masked]

\* np.ma.maximum(array, 0.0)
MaMaximum0(a) == [i \in DOMAIN a |-> IF a[i].ok THEN Valid(Max2(a[i].v, 0)) ELSE masked]

\* np.ma.count(array)
MaCount(a) == Cardinality({i \in DOMAIN a : a[i].ok})

\* np.ma.min(array) of an array holding at least one valid sample
MaMin(a) == CHOOSE m \in {a[i].v : i \in {j \in DOMAIN a : a[j].ok}} :
                \A i \in DOMAIN a : a[i].ok => m <= a[i].v

\* np.ma.argmin(array): first index of the least valid sample
MaArgmin(a) == CHOOSE i \in DOMAIN a :
                   /\ a[i].ok
                   /\ a[i].v = MaMin(a)
                   /\ \A j \in DOMAIN a : (a[j].ok /\ a[j].v = MaMin(a)) => i <= j

\* np_ma_zeros_like(array)
np_ma_zeros_like(a) == [i \in DOMAIN a |-> Valid(0)]

\* Python slice.indices(len) for a step of +1 or -1: start and stop
\* normalised as the interpreter does (negative values count from the end)
SliceBound(x, len, lower, upper) ==
    LET y == IF x < 0 THEN x + len ELSE x
    IN  IF y < lower THEN lower ELSE IF y > upper THEN upper ELSE y

\* the array indices selected by array[start:stop:step], in order
SliceIndices(s, len) ==
    IF s.step = 1
    THEN LET lo == SliceBound(s.start, len, 0, len)
             hi == SliceBound(s.stop, len, 0, len)
         IN  [j \in 1 .. Max2(hi - lo, 0) |-> lo + j - 1]
    ELSE LET hi == SliceBound(s.start, len, -1, len - 1)
             lo == SliceBound(s.stop, len, -1, len - 1)
         IN  [j \in 1 .. Max2(hi - lo, 0) |-> hi - j + 1]

Slice(a, b) == [start |-> a, stop |-> b, step |-> 1]

SliceRev(a, b) == [start |-> a, stop |-> b, step |-> -1]

\* array[slice] as a new array indexed from 0
Section(a, s) ==
    LET ix == SliceIndices(s, ALen(a))
    IN  [j \in 0 .. Len(ix) - 1 |-> a[ix[j + 1]]]

\* array[slice] = values (values has the length of the selection)
AssignSection(a, s, values) ==
    LET ix == SliceIndices(s, ALen(a))
    IN  [i \in DOMAIN a |->
            IF \E j \in 1 .. Len(ix) : ix[j] = i
            THEN values[(CHOOSE j \in 1 .. Len(ix) : ix[j] = i) - 1]
            ELSE a[i]]

\* array[lo:hi] = 0.0
ZeroRange(a, lo, hi) == [i \in DOMAIN a |-> IF lo <= i /\ i < hi THEN Valid(0) ELSE a[i]]

------------------------------------------------------------------------------
(* Helpers of analysis_engine.library used by compute_aal                   *)

\* the maximal runs [start, stop) of indices of 0 .. len-1 that are in S,
\* in increasing order, as slices
Runs(S, len) ==
    LET starts == {i \in S : i - 1 \notin S}
        StopOf(s) == CHOOSE e \in (s + 1) .. len :
                         /\ \A i \in s .. (e - 1) : i \in S
                         /\ (e = len \/ e \notin S)
        Nth(k) == CHOOSE s \in starts : Cardinality({t \in starts : t < s}) = k - 1
    IN  [k \in 1 .. Cardinality(starts) |-> Slice(Nth(k), StopOf(Nth(k)))]

\* np.ma.clump_unmasked(array)
clump_unmasked(a) == Runs({i \in DOMAIN a : a[i].ok}, ALen(a))

\* np.ma.masked_outside(array, lo, hi)
masked_outside(a, lo, hi) ==
    [i \in DOMAIN a |-> IF a[i].ok /\ lo <= a[i].v /\ a[i].v <= hi THEN a[i] ELSE masked]

\* slices_not(slice_list, begin_at, end_at): the gaps between the slices
slices_not(slice_list, begin_at, end_at) ==
    LET covered == {i \in begin_at .. (end_at - 1) :
                       \E k \in 1 .. Len(slice_list) :
                           slice_list[k].start <= i /\ i < slice_list[k].stop}
        free == {i \in begin_at .. (end_at - 1) : i \notin covered}
    IN  Runs(free, end_at)

\* first_valid_sample(array[lo:hi]): the first index of lo .. hi-1 at which
\* the sample is valid (found = FALSE stands for the result (None, None))
first_valid_sample(a, lo, hi) ==
    LET ok == {i \in lo .. (hi - 1) : a[i].ok}
    IN  IF ok = {} THEN [found |-> FALSE, index |-> lo, value |-> 0]
        ELSE LET i == CHOOSE x \in ok : \A y \in ok : x <= y
             IN  [found |-> TRUE, index |-> i, value |-> a[i].v]

\* first_valid_sample(array[lo:hi][::-1])
last_valid_sample(a, lo, hi) ==
    LET ok == {i \in lo .. (hi - 1) : a[i].ok}
    IN  IF ok = {} THEN [found |-> FALSE, index |-> hi, value |-> 0]
        ELSE LET i == CHOOSE x \in ok : \A y \in ok : x >= y
             IN  [found |-> TRUE, index |-> i, value |-> a[i].v]

------------------------------------------------------------------------------
(* link_baro_rad_fwd / link_baro_rad_rev                                    *)

\* a forward link that forgets the offset: the pressure altitude is copied
\* from the handover index on without subtracting up_diff
link_baro_rad_fwd_unshifted(baro_section, ralt_section, alt_rad, alt_std, alt_result) ==
    LET begin_index == baro_section.start
        start_plus_60 == Min2(begin_index + LINK_SCAN, ALen(alt_std))
        alt_diff == [i \in DOMAIN alt_std |-> MaSub(alt_std[i], alt_rad[i])]
        fvs == first_valid_sample(alt_diff, begin_index, start_plus_60)
        handover == IF fvs.found THEN fvs.index ELSE begin_index
    IN  IF ralt_section.stop # begin_index THEN alt_result
        ELSE [i \in DOMAIN alt_result |->
                 IF i >= handover THEN alt_std[i]
                 ELSE IF i >= begin_index THEN alt_rad[i]
                 ELSE alt_result[i]]

link_baro_rad_fwd(baro_section, ralt_section, alt_rad, alt_std, alt_result) ==
    LET begin_index == baro_section.start
        start_plus_60 == Min2(begin_index + LINK_SCAN, ALen(alt_std))
        alt_diff == [i \in DOMAIN alt_std |-> MaSub(alt_std[i], alt_rad[i])]
        fvs == first_valid_sample(alt_diff, begin_index, start_plus_60)
        up_diff == IF fvs.found THEN fvs.value ELSE 0
        handover == IF fvs.found THEN fvs.index ELSE begin_index
    IN  IF ralt_section.stop # begin_index THEN alt_result
        ELSE [i \in DOMAIN alt_result |->
                 IF i >= handover THEN MaSub(alt_std[i], Valid(up_diff))
                 ELSE IF i >= begin_index THEN alt_rad[i]
                 ELSE alt_result[i]]

link_baro_rad_rev(baro_section, ralt_section, alt_rad, alt_std, alt_result) ==
    LET end_index == baro_section.stop
        end_minus_60 == Max2(end_index - LINK_SCAN, 0)
        alt_diff == [i \in DOMAIN alt_std |-> MaSub(alt_std[i], alt_rad[i])]
        fvs == last_valid_sample(alt_diff, end_minus_60, end_index)
        up_diff == IF fvs.found THEN fvs.value ELSE 0
        \* end_index - slip, one past the sample found
        handover == IF fvs.found THEN fvs.index + 1 ELSE end_index
    IN  IF ralt_section.start # end_index THEN alt_result
        ELSE [i \in DOMAIN alt_result |->
                 IF i < handover THEN MaSub(alt_std[i], Valid(up_diff))
                 ELSE IF i < end_index THEN alt_rad[i]
                 ELSE alt_result[i]]

------------------------------------------------------------------------------
(* AltitudeAAL.compute_aal                                                  *)
(* The result is [raised, a]: raised = TRUE when the call ends in an       *)
(* exception, otherwise a is the array returned.  The radio altitude       *)
(* argument is [supplied, array]; supplied = FALSE is alt_rad=None.        *)

Returned(a) == [raised |-> FALSE, a |-> a]

Raised == [raised |-> TRUE, a |-> EmptyArray]

NoRadio == [supplied |-> FALSE, array |-> EmptyArray]

Radio(a) == [supplied |-> TRUE, array |-> a]

\* The sections handed to compute_aal by this model are shorter than the
\* window peak_curvature works on, so the try block fails and the except
\* branch sets pit = np.ma.min(alt_std).  The minimum of an empty array
\* raises; the minimum of an all-masked array is masked.
shift_alt_std(alt_std) ==
    IF ALen(alt_std) = 0 THEN Raised
    ELSE IF MaCount(alt_std) = 0 THEN Returned([i \in DOMAIN alt_std |-> masked])
    ELSE Returned(MaMaximum0(MaSubScalar(alt_std, MaMin(alt_std))))

\* np.ma.mean(alt_std[ralt_section] - alt_rad_aal[ralt_section]) > 10000
\* (a masked mean is not greater than anything)
SensorsDisagree(alt_std, alt_rad_aal, ralt_section) ==
    LET ok == {i \in ralt_section.start .. (ralt_section.stop - 1) :
                  alt_std[i].ok /\ alt_rad_aal[i].ok}
        RECURSIVE Sum(_)
        Sum(S) == IF S = {} THEN 0
                  ELSE LET i == CHOOSE x \in S : TRUE
                       IN  (alt_std[i].v - alt_rad_aal[i].v) + Sum(S \ {i})
    IN  ok # {} /\ Sum(ok) > SENSOR_DISAGREEMENT * Cardinality(ok)

\* for baro_section in baro_sections: link forwards, then backwards
RECURSIVE LinkBaroSections(_, _, _, _, _, _)
LinkBaroSections(k, baro_sections, ralt_section, alt_rad_aal, alt_std, alt_result) ==
    IF k > Len(baro_sections) THEN alt_result
    ELSE LET fwd == link_baro_rad_fwd(baro_sections[k], ralt_section,
                                      alt_rad_aal, alt_std, alt_result)
             rev == link_baro_rad_rev(baro_sections[k], ralt_section,
                                      alt_rad_aal, alt_std, fwd)
         IN  LinkBaroSections(k + 1, baro_sections, ralt_section,
                              alt_rad_aal, alt_std, rev)

\* for ralt_section in ralt_sections (lines 793-805)
RECURSIVE StitchSections(_, _, _, _, _, _)
StitchSections(k, ralt_sections, baro_sections, alt_rad_aal, alt_std, alt_result) ==
    IF k > Len(ralt_sections) THEN alt_result
    ELSE IF SensorsDisagree(alt_std, alt_rad_aal, ralt_sections[k])
    THEN StitchSections(k + 1, ralt_sections, baro_sections,
                        alt_rad_aal, alt_std, alt_result)
    ELSE LET rs == ralt_sections[k]
             radio == [i \in DOMAIN alt_result |->
                          IF rs.start <= i /\ i < rs.stop THEN alt_rad_aal[i]
                          ELSE alt_result[i]]
         IN  StitchSections(k + 1, ralt_sections, baro_sections, alt_rad_aal, alt_std,
                            LinkBaroSections(1, baro_sections, rs,
                                             alt_rad_aal, alt_std, radio))

\* the radio sections that hold a sample above the bounce threshold
BounceSections(ralt_sections, alt_rad) ==
    SelectSeq(ralt_sections,
              LAMBDA y : \E i \in y.start .. (y.stop - 1) :
                             alt_rad[i].ok /\ alt_rad[i].v > BOUNCED_LANDING_THRESHOLD)

\* the radio sections of the dip: runs of clipped radio altitude in 0.1 .. 100 ft
RaltSections(alt_rad_aal) ==
    clump_unmasked(masked_outside(alt_rad_aal, RALT_MIN, RALT_MAX))

\* lines 778-788: alt_result after the bounce rejection of a land dip
LandBounceResult(alt_result, alt_rad_aal, bounce_end, hundred_feet) ==
    [i \in DOMAIN alt_result |->
        IF i < bounce_end THEN Valid(0)
        ELSE IF i < hundred_feet THEN alt_rad_aal[i]
        ELSE alt_result[i]]

\* compute_aal with the pressure-only shift for every dip without radio
\* altitude, whatever its type
compute_aal_land_style(mode, alt_std, low_hb, high_gnd, alt_rad) ==
    IF (~alt_rad.supplied) \/ MaCount(alt_rad.array) = 0
    THEN shift_alt_std(alt_std)
    ELSE IF mode = "over_gnd" /\ (low_hb - high_gnd) > OVER_GND_CLEARANCE
    THEN Returned(MaSubScalar(alt_std, high_gnd))
    ELSE
    LET alt_rad_aal == MaMaximum0(alt_rad.array)
        ralt_sections == RaltSections(alt_rad_aal)
        zeros == np_ma_zeros_like(alt_std)
        len == ALen(alt_std)
    IN  IF Len(ralt_sections) = 0 THEN shift_alt_std(alt_std)
        ELSE IF mode = "land"
        THEN LET bounce_sections == BounceSections(ralt_sections, alt_rad.array)
             IN  IF Len(bounce_sections) = 0 THEN Raised
                 ELSE LET bounce_end == bounce_sections[1].start
                          hundred_feet == bounce_sections[Len(bounce_sections)].stop
                          land_sections == <<Slice(0, hundred_feet)>>
                      IN  Returned(StitchSections(1, land_sections,
                                       slices_not(land_sections, 0, len),
                                       alt_rad_aal, alt_std,
                                       LandBounceResult(zeros, alt_rad_aal,
                                                        bounce_end, hundred_feet)))
        ELSE Returned(StitchSections(1, ralt_sections,
                                     slices_not(ralt_sections, 0, len),
                                     alt_rad_aal, alt_std, zeros))

compute_aal(mode, alt_std, low_hb, high_gnd, alt_rad) ==
    IF (~alt_rad.supplied) \/ MaCount(alt_rad.array) = 0
    THEN IF mode # "land" THEN Returned(MaSubScalar(alt_std, high_gnd))
         ELSE shift_alt_std(alt_std)
    ELSE IF mode = "over_gnd" /\ (low_hb - high_gnd) > OVER_GND_CLEARANCE
    THEN Returned(MaSubScalar(alt_std, high_gnd))
    ELSE
    LET alt_rad_aal == MaMaximum0(alt_rad.array)
        ralt_sections == RaltSections(alt_rad_aal)
        zeros == np_ma_zeros_like(alt_std)
        len == ALen(alt_std)
    IN  IF Len(ralt_sections) = 0 THEN shift_alt_std(alt_std)
        ELSE IF mode = "land"
        THEN LET bounce_sections == BounceSections(ralt_sections, alt_rad.array)
             IN  IF Len(bounce_sections) = 0 THEN Raised
                 ELSE LET bounce_end == bounce_sections[1].start
                          hundred_feet == bounce_sections[Len(bounce_sections)].stop
                          land_sections == <<Slice(0, hundred_feet)>>
                      IN  Returned(StitchSections(1, land_sections,
                                       slices_not(land_sections, 0, len),
                                       alt_rad_aal, alt_std,
                                       LandBounceResult(zeros, alt_rad_aal,
                                                        bounce_end, hundred_feet)))
        ELSE Returned(StitchSections(1, ralt_sections,
                                     slices_not(ralt_sections, 0, len),
                                     alt_rad_aal, alt_std, zeros))

------------------------------------------------------------------------------
(* AltitudeAAL.derive                                                       *)

VARIABLES
    alt_std,     \* P('Altitude STD Smoothed').array
    alt_rad,     \* P('Altitude Radio'): [supplied, array]
    speedies,    \* S('Fast'): the sequence of slices
    cycles,      \* for each Fast slice, what cycle_finder returns for it
    pc,          \* the position of derive
    k,           \* the Fast slice the for loop is at (1 ..)
    dips,        \* the dip list of the current Fast slice
    alt_aal,     \* the local array alt_aal
    self_array,  \* self.array: [assigned, array]
    \* VerticalSpeedInertial.derive
    az_repair,       \* az.array after repair_mask
    alt_std_repair,  \* alt_std.array after repair_mask
    alt_rad_repair,  \* alt_rad.array after repair_mask
    az_washout,      \* first_order_washout of az_repair, sample by sample
    nominal,         \* roc_alt_std + inertial_roc, sample by sample
    vsi_fast,        \* S('Fast'): the sequence of slices
    vpc,             \* the position of derive
    at,              \* [speedy, clump, band]: the loop indices (1 ..)
    roc,             \* the local array roc of inertial_vertical_speed
    vsi_array,       \* self.array
    \* StableApproach.derive
    params,          \* the parameters of derive, prepared (lines 1612-1625)
    sa_pc,           \* the position of derive
    sa_k,            \* the approach the for loop is at (1 ..)
    prep,            \* _slice, index_at_50, index_at_200, glide_est_at_1000ft
    stable_array,    \* self.array
    \* GearUpSelected.derive
    gear,            \* the parameters of derive: [gear_down, gear_warn]
    gus_pc,          \* the position of derive
    gus_n,           \* the for loop's position in start_warning (1 ..)
    last,            \* last
    state,           \* state
    gus_array,       \* self.array
    \* ThrustReversers.derive
    tr_params,       \* the supplied parameters of derive, by kind
    tr_pc,           \* the position of derive
    tr_array         \* self.array

\* the state of VerticalSpeedInertial
inertial == <<az_repair, alt_std_repair, alt_rad_repair, az_washout, nominal,
              vsi_fast, vpc, at, roc, vsi_array>>

\* the state of StableApproach
stable_approach == <<params, sa_pc, sa_k, prep, stable_array>>

\* the state of AltitudeAAL
altitude_aal == <<alt_std, alt_rad, speedies, cycles, pc, k, dips, alt_aal, self_array>>

\* the state of GearUpSelected
gear_up_selected == <<gear, gus_pc, gus_n, last, state, gus_array>>

\* the state of ThrustReversers
thrust_reversers == <<tr_params, tr_pc, tr_array>>

vars == <<altitude_aal, inertial, stable_approach, gear_up_selected, thrust_reversers>>

\* what AltitudeAAL never writes: its inputs and the state of the other nodes
inputs == <<alt_std, alt_rad, speedies, cycles, inertial, stable_approach,
            gear_up_selected, thrust_reversers>>

\* VerticalSpeedInertial before derive is called
InertialIdle ==
    /\ az_repair = EmptyArray
    /\ alt_std_repair = EmptyArray
    /\ alt_rad_repair = EmptyArray
    /\ az_washout = EmptyArray
    /\ nominal = EmptyArray
    /\ vsi_fast = <<>>
    /\ vpc = "idle"
    /\ at = [speedy |-> 1, clump |-> 1, band |-> 1]
    /\ roc = EmptyArray
    /\ vsi_array = EmptyArray

\* GearUpSelected before derive is called
SelectedIdle ==
    /\ gear = <<>>
    /\ gus_pc = "idle"
    /\ gus_n = 1
    /\ last = 0
    /\ state = "Down"
    /\ gus_array = EmptyArray

\* ThrustReversers before derive is called
ReversersIdle ==
    /\ tr_params = <<>>
    /\ tr_pc = "idle"
    /\ tr_array = EmptyArray

\* StableApproach before derive is called
ApproachIdle ==
    /\ params = <<>>
    /\ sa_pc = "idle"
    /\ sa_k = 1
    /\ prep = <<>>
    /\ stable_array = EmptyArray

\* speedy.slice == slice(None, None, None)
SliceNone == [none |-> TRUE, start |-> 0, stop |-> 0]

FastSlice(a, b) == [none |-> FALSE, start |-> a, stop |-> b]

\* cycle_finder returned (None, None)
NoCycles == [found |-> FALSE, idxs |-> <<>>]

\* cycle_finder returned these extrema; the indices are those of the whole
\* array (line 836 has added quick.start)
Cycles(idxs) == [found |-> TRUE, idxs |-> idxs]

Dip(type, slice, alt, ground) ==
    [type |-> type, slice |-> slice, alt_std |-> alt, highest_ground |-> ground]

\* a classifier that takes a V whose radio altitude stays above 100 ft for a
\* dip of type high, as if no radio altitude had been recorded in it
DownUpHighAbove100(n, ds, idxs, vals, a_std, a_rad) ==
    LET alt_idx == idxs[n + 1]
        next_alt == vals[n + 2]
        down_up == Slice(alt_idx, idxs[n + 3])
        rad_section == Section(a_rad.array, down_up)
    IN  IF a_rad.supplied /\ MaCount(rad_section) > 0
           /\ MaMin(rad_section) <= OVER_GND_CLEARANCE
        THEN LET arg_hg_max == MaArgmin(rad_section) + idxs[n + 1]
                 hg_max == MaSub(a_std[arg_hg_max], a_rad.array[arg_hg_max])
             IN  IF hg_max.ok
                 THEN Append(ds, Dip("over_gnd", down_up,
                                     a_std[arg_hg_max].v, hg_max.v))
                 ELSE ds
        ELSE IF Len(ds) > 0 /\ ds[Len(ds)].type = "high"
        THEN LET prev_dip == ds[Len(ds)]
             IN  [ds EXCEPT ![Len(ds)] =
                     Dip("high", Slice(prev_dip.slice.start, idxs[n + 3]),
                         Min2(prev_dip.alt_std, next_alt),
                         prev_dip.highest_ground)]
        ELSE Append(ds, Dip("high", down_up, next_alt, next_alt))

\* a classifier that appends a new dip of type high for every V without
\* radio altitude, whatever the dip before it
DownUpUnmerged(n, ds, idxs, vals, a_std, a_rad) ==
    LET alt_idx == idxs[n + 1]
        next_alt == vals[n + 2]
        down_up == Slice(alt_idx, idxs[n + 3])
        rad_section == Section(a_rad.array, down_up)
    IN  IF a_rad.supplied /\ MaCount(rad_section) > 0
        THEN LET arg_hg_max == MaArgmin(rad_section) + idxs[n + 1]
                 hg_max == MaSub(a_std[arg_hg_max], a_rad.array[arg_hg_max])
             IN  IF hg_max.ok
                 THEN Append(ds, Dip("over_gnd", down_up,
                                     a_std[arg_hg_max].v, hg_max.v))
                 ELSE ds
        ELSE Append(ds, Dip("high", down_up, next_alt, next_alt))

\* lines 895-937: the down and up section that starts at extremum n
\* (n counts from 0 as in the source; idxs and vals are 1-based sequences)
DownUp(n, ds, idxs, vals, a_std, a_rad) ==
    LET alt_idx == idxs[n + 1]
        next_alt == vals[n + 2]
        down_up == Slice(alt_idx, idxs[n + 3])
        rad_section == Section(a_rad.array, down_up)
    IN  IF a_rad.supplied /\ MaCount(rad_section) > 0
        THEN LET arg_hg_max == MaArgmin(rad_section) + idxs[n + 1]
                 hg_max == MaSub(a_std[arg_hg_max], a_rad.array[arg_hg_max])
             IN  IF hg_max.ok
                 THEN Append(ds, Dip("over_gnd", down_up,
                                     a_std[arg_hg_max].v, hg_max.v))
                 ELSE ds
        ELSE IF Len(ds) > 0 /\ ds[Len(ds)].type = "high"
        THEN LET prev_dip == ds[Len(ds)]
             IN  [ds EXCEPT ![Len(ds)] =
                     Dip("high", Slice(prev_dip.slice.start, idxs[n + 3]),
                         Min2(prev_dip.alt_std, next_alt),
                         prev_dip.highest_ground)]
        ELSE Append(ds, Dip("high", down_up, next_alt, next_alt))

\* a while loop that takes a peak where a dip is expected for one more down
\* and up section instead of raising
RECURSIVE ClassifyFromLenient(_, _, _, _, _, _, _)
ClassifyFromLenient(n, ds, idxs, vals, quick, a_std, a_rad) ==
    LET n_vals == Len(vals)
        alt == vals[n + 1]
        alt_idx == idxs[n + 1]
        next_alt == vals[n + 2]
        next_alt_idx == idxs[n + 2]
    IN  IF ~(n < n_vals - 1) THEN [raised |-> FALSE, dips |-> ds]
        ELSE IF next_alt > alt
        THEN ClassifyFromLenient(n + 1,
                 Append(ds, Dip("land", Slice(quick.start, next_alt_idx), alt, alt)),
                 idxs, vals, quick, a_std, a_rad)
        ELSE IF n + 2 >= n_vals
        THEN ClassifyFromLenient(n + 1,
                 Append(ds, Dip("land", SliceRev(quick.stop, alt_idx - 1),
                                next_alt, next_alt)),
                 idxs, vals, quick, a_std, a_rad)
        ELSE ClassifyFromLenient(n + 2, DownUp(n, ds, idxs, vals, a_std, a_rad),
                                 idxs, vals, quick, a_std, a_rad)

\* lines 863-940: the while loop; the result is [raised, dips]
RECURSIVE ClassifyFrom(_, _, _, _, _, _, _)
ClassifyFrom(n, ds, idxs, vals, quick, a_std, a_rad) ==
    LET n_vals == Len(vals)
        alt == vals[n + 1]
        alt_idx == idxs[n + 1]
        next_alt == vals[n + 2]
        next_alt_idx == idxs[n + 2]
    IN  IF ~(n < n_vals - 1) THEN [raised |-> FALSE, dips |-> ds]
        ELSE IF next_alt > alt
        THEN ClassifyFrom(n + 1,
                 Append(ds, Dip("land", Slice(quick.start, next_alt_idx), alt, alt)),
                 idxs, vals, quick, a_std, a_rad)
        ELSE IF n + 2 >= n_vals
        THEN ClassifyFrom(n + 1,
                 Append(ds, Dip("land", SliceRev(quick.stop, alt_idx - 1),
                                next_alt, next_alt)),
                 idxs, vals, quick, a_std, a_rad)
        ELSE IF vals[n + 3] > next_alt
        THEN ClassifyFrom(n + 2, DownUp(n, ds, idxs, vals, a_std, a_rad),
                          idxs, vals, quick, a_std, a_rad)
        ELSE [raised |-> TRUE, dips |-> ds]

\* alt_vals: the values of the extrema
CycleVals(idxs, a_std) == [j \in 1 .. Len(idxs) |-> a_std[idxs[j]].v]

Classify(cyc, quick, a_std, a_rad) ==
    ClassifyFrom(0, <<>>, cyc.idxs, CycleVals(cyc.idxs, a_std), quick, a_std, a_rad)

\* a post-pass whose interior case lowers the dip's own ground estimate by
\* 1000 ft instead of taking 1000 ft below the dip's pressure altitude
PostPassDipFromGround(n, ds) ==
    LET dip == ds[n + 1]
    IN  IF dip.type # "high" THEN ds
        ELSE IF n = 0
        THEN IF Len(ds) = 1
             THEN [ds EXCEPT ![n + 1].alt_std = dip.highest_ground + HIGH_DIP_OFFSET]
             ELSE LET next_dip == ds[n + 2]
                  IN  [ds EXCEPT ![n + 1].highest_ground =
                          dip.alt_std - next_dip.alt_std + next_dip.highest_ground]
        ELSE IF n = Len(ds) - 1
        THEN LET prev_dip == ds[n]
             IN  [ds EXCEPT ![n + 1].highest_ground =
                     dip.alt_std - prev_dip.alt_std + prev_dip.highest_ground]
        ELSE LET next_dip == ds[n + 2]
                 prev_dip == ds[n]
             IN  [ds EXCEPT ![n + 1].highest_ground =
                     Min2(prev_dip.highest_ground,
                          Min2(dip.highest_ground - HIGH_DIP_OFFSET,
                               next_dip.highest_ground))]

\* lines 943-974: the body of the post-pass loop for dip n (from 0)
PostPassDip(n, ds) ==
    LET dip == ds[n + 1]
    IN  IF dip.type # "high" THEN ds
        ELSE IF n = 0
        THEN IF Len(ds) = 1
             THEN [ds EXCEPT ![n + 1].alt_std = dip.highest_ground + HIGH_DIP_OFFSET]
             ELSE LET next_dip == ds[n + 2]
                  IN  [ds EXCEPT ![n + 1].highest_ground =
                          dip.alt_std - next_dip.alt_std + next_dip.highest_ground]
        ELSE IF n = Len(ds) - 1
        THEN LET prev_dip == ds[n]
             IN  [ds EXCEPT ![n + 1].highest_ground =
                     dip.alt_std - prev_dip.alt_std + prev_dip.highest_ground]
        ELSE LET next_dip == ds[n + 2]
                 prev_dip == ds[n]
             IN  [ds EXCEPT ![n + 1].highest_ground =
                     Min2(prev_dip.highest_ground,
                          Min2(dip.alt_std - HIGH_DIP_OFFSET,
                               next_dip.highest_ground))]

\* lines 942-974: for n, dip in enumerate(dips), updating the list in place
RECURSIVE PostPassFrom(_, _)
PostPassFrom(n, ds) ==
    IF n >= Len(ds) THEN ds ELSE PostPassFrom(n + 1, PostPassDip(n, ds))

PostPassLoop(ds) == PostPassFrom(0, ds)

\* lines 976-983: for dip in dips; the result is [raised, a]
RECURSIVE ComputeFrom(_, _, _, _, _)
ComputeFrom(j, ds, aal, a_std, a_rad) ==
    IF j > Len(ds) THEN Returned(aal)
    ELSE LET dip == ds[j]
             alt_rad_section ==
                 IF a_rad.supplied THEN Radio(Section(a_rad.array, dip.slice))
                 ELSE NoRadio
             r == compute_aal(dip.type, Section(a_std, dip.slice),
                              dip.alt_std, dip.highest_ground, alt_rad_section)
         IN  IF r.raised THEN Raised
             ELSE ComputeFrom(j + 1, ds, AssignSection(aal, dip.slice, r.a),
                              a_std, a_rad)

\* lines 985-987: reset end sections
ResetEndSections(aal, quick, idxs) ==
    ZeroRange(ZeroRange(aal, quick.start, idxs[1] + 1),
              idxs[Len(idxs)] + 1, quick.stop)

------------------------------------------------------------------------------
(* The inputs of derive                                                     *)

AltLevels == {Ft(0), Ft(1000), Ft(2000)}

RadLevels == {Ft(50), Ft(150)}

\* the arrays of n valid pressure altitude samples
AltArrays(n) == [0 .. (n - 1) -> {Valid(x) : x \in AltLevels}]

\* radio altitude reads only near the ground: arrays of n samples that are
\* valid within one window of at most RadWindow samples, masked elsewhere
RadArrays(n) ==
    {[i \in 0 .. (n - 1) |-> masked]} \cup
    UNION {UNION {{[i \in 0 .. (n - 1) |->
                       IF w <= i /\ i < w + m THEN Valid(f[i - w]) ELSE masked] :
                      f \in [0 .. (m - 1) -> RadLevels]} :
                  w \in 0 .. (n - m)} :
           m \in 1 .. RadWindow}

\* the elements of a set of integers in increasing order
RECURSIVE SortedSeq(_)
SortedSeq(S) ==
    IF S = {} THEN <<>>
    ELSE LET m == CHOOSE x \in S : \A y \in S : x <= y
         IN  <<m>> \o SortedSeq(S \ {m})

\* what cycle_finder may return for a Fast slice: nothing, or two or more
\* extrema at increasing indices of the slice, each at least MIN_STEP from
\* the one before it, with every sample between two of them inside their range
IsCycleList(S, a_std) ==
    /\ Cardinality(S) >= 2
    /\ \A i \in S : a_std[i].ok
    /\ \A i, j \in S :
          (i < j /\ \A m \in S : ~(i < m /\ m < j)) =>
              /\ Max2(a_std[i].v, a_std[j].v) - Min2(a_std[i].v, a_std[j].v) >= MIN_STEP
              /\ \A m \in (i + 1) .. (j - 1) :
                    a_std[m].ok =>
                        /\ Min2(a_std[i].v, a_std[j].v) <= a_std[m].v
                        /\ a_std[m].v <= Max2(a_std[i].v, a_std[j].v)

CycleChoices(quick, a_std) ==
    IF quick.none THEN {NoCycles}
    ELSE {NoCycles} \cup
         {Cycles(SortedSeq(S)) :
             S \in {T \in SUBSET (quick.start .. (quick.stop - 1)) : IsCycleList(T, a_std)}}

\* the lists of at most m Fast slices that lie in lo .. n, in order
RECURSIVE FastLists(_, _, _)
FastLists(lo, n, m) ==
    IF m = 0 THEN {<<>>}
    ELSE {<<>>} \cup
         UNION {{<<FastSlice(ab[1], ab[2])>> \o rest : rest \in FastLists(ab[2], n, m - 1)} :
                   ab \in {xy \in (lo .. n) \X (lo .. n) : xy[1] < xy[2]}}

\* the lists of cycle_finder results for a list of Fast slices
RECURSIVE CycleLists(_, _)
CycleLists(fast, a_std) ==
    IF fast = <<>> THEN {<<>>}
    ELSE {<<c>> \o rest : c \in CycleChoices(Head(fast), a_std),
                          rest \in CycleLists(Tail(fast), a_std)}

Start(a_std, a_rad, fast, cyc) ==
    /\ alt_std = a_std
    /\ alt_rad = a_rad
    /\ speedies = fast
    /\ cycles = cyc
    /\ pc = "loop"
    /\ k = 1
    /\ dips = <<>>
    /\ alt_aal = np_ma_zeros_like(a_std)
    /\ self_array = [assigned |-> FALSE, array |-> EmptyArray]
    /\ InertialIdle
    /\ ApproachIdle
    /\ SelectedIdle
    /\ ReversersIdle

\* pressure altitude only (no radio altitude parameter), any list of Fast slices
Init ==
    \E a_std \in AltArrays(NumSamples) :
    \E a_rad \in {NoRadio} :
    \E fast \in (FastLists(0, NumSamples, MaxFast) \ {<<>>}) \cup {<<SliceNone>>} :
    \E cyc \in CycleLists(fast, a_std) :
        Start(a_std, a_rad, fast, cyc)

\* the flights of n samples recorded from the ground to the ground
Flights(n) ==
    {a \in AltArrays(n) : a[0] = Valid(Ft(0)) /\ a[n - 1] = Valid(Ft(0))}

\* a whole flight with a radio altitude parameter (valid in a window, or all
\* masked) or none, and one Fast slice over it
InitRadio ==
    \E a_std \in Flights(RadioSamples) :
    \E a_rad \in {NoRadio} \cup {Radio(r) : r \in RadArrays(RadioSamples)} :
    \E fast \in {<<FastSlice(0, RadioSamples)>>, <<SliceNone>>} :
    \E cyc \in CycleLists(fast, a_std) :
        Start(a_std, a_rad, fast, cyc)

\* the arrays of n pressure altitude samples of which at most one is masked
MaskedAltArrays(n) ==
    AltArrays(n) \cup
    {[i \in 0 .. (n - 1) |-> IF i = m THEN masked ELSE a[i]] :
        a \in AltArrays(n), m \in 0 .. (n - 1)}

\* a pressure altitude with a masked sample, a radio altitude parameter and
\* one Fast slice over the whole array
InitMasked ==
    \E a_std \in MaskedAltArrays(MaskSamples) :
    \E a_rad \in {Radio(r) : r \in RadArrays(MaskSamples)} :
    \E fast \in {<<FastSlice(0, MaskSamples)>>, <<SliceNone>>} :
    \E cyc \in CycleLists(fast, a_std) :
        Start(a_std, a_rad, fast, cyc)

------------------------------------------------------------------------------
(* The steps of derive                                                      *)

AtLoop == pc = "loop" /\ k <= Len(speedies)

\* lines 821-823: the slice is slice(None, None, None)
BreakOnSliceNone ==
    /\ AtLoop
    /\ speedies[k].none
    /\ self_array' = [assigned |-> TRUE, array |-> alt_aal]
    /\ pc' = "done"
    /\ UNCHANGED <<inputs, k, dips, alt_aal>>

\* lines 829-834: cycle_finder found nothing
SkipSlice ==
    /\ AtLoop
    /\ ~speedies[k].none
    /\ ~cycles[k].found
    /\ k' = k + 1
    /\ UNCHANGED <<inputs, pc, dips, alt_aal, self_array>>

\* a loop that gives up the Fast slice on a classification fault and goes on
\* with the next one
ClassifyDipsSkipFault ==
    /\ AtLoop
    /\ ~speedies[k].none
    /\ cycles[k].found
    /\ LET r == Classify(cycles[k], speedies[k], alt_std, alt_rad)
       IN  /\ dips' = r.dips
           /\ pc' = IF r.raised THEN "loop" ELSE "postpass"
           /\ k' = IF r.raised THEN k + 1 ELSE k
    /\ UNCHANGED <<inputs, alt_aal, self_array>>

\* lines 836-940: build the dip list, or raise ValueError
ClassifyDips ==
    /\ AtLoop
    /\ ~speedies[k].none
    /\ cycles[k].found
    /\ LET r == Classify(cycles[k], speedies[k], alt_std, alt_rad)
       IN  /\ dips' = r.dips
           /\ pc' = IF r.raised THEN "raised" ELSE "postpass"
    /\ UNCHANGED <<inputs, k, alt_aal, self_array>>

\* lines 942-974
PostPass ==
    /\ pc = "postpass"
    /\ dips' = PostPassLoop(dips)
    /\ pc' = "compute"
    /\ UNCHANGED <<inputs, k, alt_aal, self_array>>

\* lines 976-983: an exception in compute_aal leaves derive
ComputeDips ==
    /\ pc = "compute"
    /\ LET r == ComputeFrom(1, dips, alt_aal, alt_std, alt_rad)
       IN  /\ alt_aal' = IF r.raised THEN alt_aal ELSE r.a
           /\ pc' = IF r.raised THEN "raised" ELSE "reset"
    /\ UNCHANGED <<inputs, k, dips, self_array>>

\* lines 985-987, then the next Fast slice
ResetEnds ==
    /\ pc = "reset"
    /\ alt_aal' = ResetEndSections(alt_aal, speedies[k], cycles[k].idxs)
    /\ k' = k + 1
    /\ pc' = "loop"
    /\ UNCHANGED <<inputs, dips, self_array>>

\* line 999
AssignArray ==
    /\ pc = "loop"
    /\ k > Len(speedies)
    /\ self_array' = [assigned |-> TRUE, array |-> alt_aal]
    /\ pc' = "done"
    /\ UNCHANGED <<inputs, k, dips, alt_aal>>

Next ==
    \/ BreakOnSliceNone
    \/ SkipSlice
    \/ ClassifyDips
    \/ PostPass
    \/ ComputeDips
    \/ ResetEnds
    \/ AssignArray

Spec == Init /\ [][Next]_vars

SpecRadio == InitRadio /\ [][Next]_vars

SpecMasked == InitMasked /\ [][Next]_vars

------------------------------------------------------------------------------
(* compute_aal on its own: the arguments derive can build for one dip       *)

DipAltSamples == {masked, Valid(Ft(0)), Valid(Ft(12000))}

DipRadSamples == {masked, Valid(0), Valid(Ft(20)), Valid(Ft(50)), Valid(Ft(150))}

DipIndices == 0 .. (DipSamples - 1)

\* the dip as derive describes it for these arrays: a land dip has its
\* extremum as ground; an over_gnd dip has the pressure altitude and the
\* ground under the lowest radio altitude (lines 904-916); a high dip has no
\* radio altitude and a ground at or below its trough
DipChoices(a_std, a_rad) ==
    LET whole == Slice(0, DipSamples)
        low == MaMin(a_std)
        arg == MaArgmin(a_rad.array)
    IN  IF MaCount(a_std) = 0 THEN {}
        ELSE {Dip("land", whole, low, low)} \cup
             (IF a_rad.supplied /\ MaCount(a_rad.array) > 0
              THEN IF a_std[arg].ok
                   THEN {Dip("over_gnd", whole, a_std[arg].v,
                             a_std[arg].v - a_rad.array[arg].v)}
                   ELSE {}
              ELSE {Dip("high", whole, low, low),
                    Dip("high", whole, low, low - HIGH_DIP_OFFSET)})

InitCompute ==
    \E a_std \in [DipIndices -> DipAltSamples] :
    \E a_rad \in {NoRadio} \cup {Radio(r) : r \in [DipIndices -> DipRadSamples]} :
    \E dip \in DipChoices(a_std, a_rad) :
        /\ alt_std = a_std
        /\ alt_rad = a_rad
        /\ speedies = <<>>
        /\ cycles = <<>>
        /\ pc = "call"
        /\ k = 1
        /\ dips = <<dip>>
        /\ alt_aal = np_ma_zeros_like(a_std)
        /\ self_array = [assigned |-> FALSE, array |-> EmptyArray]
        /\ InertialIdle
        /\ ApproachIdle
        /\ SelectedIdle
        /\ ReversersIdle

\* result = self.compute_aal(dip['type'], alt_std, dip['alt_std'],
\*                           dip['highest_ground'], alt_rad=alt_rad)
CallComputeAal ==
    /\ pc = "call"
    /\ LET r == compute_aal(dips[1].type, alt_std, dips[1].alt_std,
                            dips[1].highest_ground, alt_rad)
       IN  /\ alt_aal' = IF r.raised THEN alt_aal ELSE r.a
           /\ pc' = IF r.raised THEN "raised" ELSE "returned"
    /\ UNCHANGED <<inputs, k, dips, self_array>>

SpecCompute == InitCompute /\ [][CallComputeAal]_vars

------------------------------------------------------------------------------
(* Properties of AltitudeAAL.derive                                         *)

\* the array derive leaves in self.array
Output == self_array.array

InFast(i, j) == (~speedies[j].none) /\ speedies[j].start <= i /\ i < speedies[j].stop

\* C1: every unmasked sample of the Altitude AAL output is >= 0
C1_OutputNonNegative ==
    pc = "done" => \A i \in DOMAIN Output : Output[i].ok => Output[i].v >= 0

\* C2: the output is 0 at the first and at the last index of every Fast
\* slice for which extrema were found
C2_ZeroAtSliceEnds ==
    pc = "done" =>
        \A j \in 1 .. Len(speedies) :
            ((~speedies[j].none) /\ cycles[j].found) =>
                /\ Output[speedies[j].start] = Valid(0)
                /\ Output[speedies[j].stop - 1] = Valid(0)

\* C3: the output is 0 at every index outside all Fast slices
C3_ZeroOutsideFast ==
    pc = "done" =>
        \A i \in DOMAIN Output :
            (\A j \in 1 .. Len(speedies) : ~InFast(i, j)) => Output[i] = Valid(0)

------------------------------------------------------------------------------
(* Properties of compute_aal (one call, specification SpecCompute)          *)

\* the arguments of the call
Mode == dips[1].type

DipLen == ALen(alt_std)

HasRadio == alt_rad.supplied /\ MaCount(alt_rad.array) > 0

\* the radio altitude clipped at 0
ClippedRadio == MaMaximum0(alt_rad.array)

\* the clipped radio altitude at index i is valid and in 0.1 .. 100 ft
InBandAt(i) ==
    /\ ClippedRadio[i].ok
    /\ RALT_MIN <= ClippedRadio[i].v
    /\ ClippedRadio[i].v <= RALT_MAX

\* [a, b) is a maximal run of in-band radio altitude holding a sample above
\* the bounce threshold
BounceRun(a, b) ==
    /\ a < b
    /\ \A i \in a .. (b - 1) : InBandAt(i)
    /\ (a = 0 \/ ~InBandAt(a - 1))
    /\ (b = DipLen \/ ~InBandAt(b))
    /\ \E i \in a .. (b - 1) : alt_rad.array[i].v > BOUNCED_LANDING_THRESHOLD

HasBounceRun == HasRadio /\ \E a \in 0 .. DipLen, b \in 0 .. DipLen : BounceRun(a, b)

\* the start of the first such run and the end of the last one
BounceEnd ==
    CHOOSE a \in 0 .. DipLen :
        /\ \E b \in 0 .. DipLen : BounceRun(a, b)
        /\ \A c \in 0 .. DipLen, b \in 0 .. DipLen : BounceRun(c, b) => a <= c

HundredFeet ==
    CHOOSE b \in 0 .. DipLen :
        /\ \E a \in 0 .. DipLen : BounceRun(a, b)
        /\ \A a \in 0 .. DipLen, c \in 0 .. DipLen : BounceRun(a, c) => c <= b

\* a land dip whose radio section [0, HundredFeet) was accepted and is
\* followed by a pressure-only section
LandStitched ==
    /\ pc = "returned"
    /\ Mode = "land"
    /\ HasBounceRun
    /\ HundredFeet < DipLen
    /\ ~SensorsDisagree(alt_std, ClippedRadio, Slice(0, HundredFeet))

\* pressure altitude and radio altitude are both valid at index i
BothValid(i) == alt_std[i].ok /\ alt_rad.array[i].ok

\* index p is the first one of the scan window after the radio section at
\* which both are valid
IsHandover(p) ==
    /\ HundredFeet <= p
    /\ p < Min2(HundredFeet + LINK_SCAN, DipLen)
    /\ BothValid(p)
    /\ \A i \in HundredFeet .. (p - 1) : ~BothValid(i)

HandoverFound == \E p \in 0 .. (DipLen - 1) : IsHandover(p)

\* C4 as stated: for every land dip the first sample the result holds after
\* the radio section equals the clipped radio altitude at that index, with
\* or without a valid (pressure - radio) sample in the scan window
C4_ContinuousAlways ==
    LandStitched =>
        \A h \in HundredFeet .. (DipLen - 1) :
            (alt_aal[h].ok /\ \A i \in HundredFeet .. (h - 1) : ~alt_aal[i].ok) =>
                (ClippedRadio[h].ok /\ alt_aal[h] = ClippedRadio[h])

\* C4 amended: with a valid (pressure - radio) sample in the scan window,
\* the result is the clipped radio altitude up to the first such index p,
\* equals it at p, and is the pressure altitude less (pressure - radio at p)
\* after it; without one the pressure altitude is copied with offset zero
C4_ContinuousAtHandover ==
    LandStitched =>
        /\ \A p \in 0 .. (DipLen - 1) :
               IsHandover(p) =>
                   /\ alt_aal[p] = ClippedRadio[p]
                   /\ \A i \in HundredFeet .. (p - 1) : alt_aal[i] = ClippedRadio[i]
                   /\ \A i \in (p + 1) .. (DipLen - 1) :
                          alt_aal[i] =
                              MaSub(alt_std[i], Valid(alt_std[p].v - ClippedRadio[p].v))
        /\ (~HandoverFound) =>
               \A i \in HundredFeet .. (DipLen - 1) : alt_aal[i] = alt_std[i]

\* a land dip stitched at a handover index later than the end of the radio
\* section, with pressure and radio altitude apart there
C4_Witness ==
    /\ LandStitched
    /\ \E p \in 0 .. (DipLen - 1) :
           /\ IsHandover(p)
           /\ p > HundredFeet
           /\ alt_std[p].v # ClippedRadio[p].v
           /\ alt_aal[p] = ClippedRadio[p]

\* C5: a dip whose radio altitude is valid and in 0.1 .. 100 ft at every
\* sample gets the clipped radio altitude back, sample for sample
C5_RoundTrip ==
    (pc # "call" /\ HasRadio /\ \A i \in DOMAIN alt_std : InBandAt(i)) =>
        (pc = "returned" /\ alt_aal = ClippedRadio)

\* C6: the result of a land dip is 0 at every index before the first radio
\* section that exceeds the bounce threshold
C6_ZeroBeforeBounce ==
    (pc = "returned" /\ Mode = "land" /\ HasBounceRun) =>
        \A i \in 0 .. (BounceEnd - 1) : alt_aal[i] = Valid(0)

------------------------------------------------------------------------------
(* Properties of the dip classifier and of the loop over the Fast slices    *)

\* the extrema of the Fast slice the loop is at
Idxs == cycles[k].idxs

Vals == CycleVals(Idxs, alt_std)

AtSlice == k <= Len(speedies) /\ (~speedies[k].none) /\ cycles[k].found

\* extrema j, j+1, j+2 (from 1) are a peak, a trough and a higher point: a V
IsV(j) ==
    /\ j + 2 <= Len(Idxs)
    /\ Vals[j + 1] <= Vals[j]
    /\ Vals[j + 2] > Vals[j + 1]

\* the samples of the V: from its peak up to, not including, its closing extremum
VRange(j) == Idxs[j] .. (Idxs[j + 2] - 1)

RadioValidIn(j) ==
    alt_rad.supplied /\ \E i \in VRange(j) : alt_rad.array[i].ok

\* the first index of the V at which the radio altitude is lowest
RadioLowest(j) ==
    CHOOSE i \in VRange(j) :
        /\ alt_rad.array[i].ok
        /\ \A m \in VRange(j) :
              alt_rad.array[m].ok =>
                  \/ alt_rad.array[i].v < alt_rad.array[m].v
                  \/ (alt_rad.array[i].v = alt_rad.array[m].v /\ i <= m)

\* radio altitude is valid at every sample of the V and never at or below 100 ft
RadioAcrossAbove100(j) ==
    /\ alt_rad.supplied
    /\ \A i \in VRange(j) :
          alt_rad.array[i].ok /\ alt_rad.array[i].v > OVER_GND_CLEARANCE

\* C7 as stated: a V whose radio altitude is valid across it and stays above
\* 100 ft is in the dip list as a dip of type high (the type whose ground
\* the post-pass takes from the neighbouring dips)
C7_VAbove100IsHigh ==
    (pc = "compute" /\ AtSlice) =>
        \A j \in 1 .. Len(Idxs) :
            (IsV(j) /\ RadioAcrossAbove100(j)) =>
                \E d \in 1 .. Len(dips) :
                    /\ dips[d].type = "high"
                    /\ dips[d].slice.start <= Idxs[j]
                    /\ Idxs[j + 2] <= dips[d].slice.stop

\* C7 amended: a V with a valid radio altitude sample, whatever its minimum,
\* and a valid pressure altitude under the lowest radio altitude is a dip of
\* type over_gnd whose ground is pressure altitude minus radio altitude there
C7_VWithRadioIsOverGnd ==
    (pc = "compute" /\ AtSlice) =>
        \A j \in 1 .. Len(Idxs) :
            (IsV(j) /\ RadioValidIn(j) /\ alt_std[RadioLowest(j)].ok) =>
                \E d \in 1 .. Len(dips) :
                    dips[d] = Dip("over_gnd", Slice(Idxs[j], Idxs[j + 2]),
                                  alt_std[RadioLowest(j)].v,
                                  alt_std[RadioLowest(j)].v
                                      - alt_rad.array[RadioLowest(j)].v)

\* a takeoff, a V with radio altitude above 100 ft across it, a landing
C7_Witness ==
    /\ pc = "compute"
    /\ AtSlice
    /\ Len(Idxs) = 5
    /\ Vals[2] > Vals[1]
    /\ Vals[5] < Vals[4]
    /\ IsV(2)
    /\ RadioAcrossAbove100(2)
    /\ Len(dips) = 3
    /\ dips[2].type = "over_gnd"
    /\ dips[2].highest_ground < dips[2].alt_std - OVER_GND_CLEARANCE

\* Scenario A: one Fast slice, no radio altitude, the pressure altitude never
\* falling over the slice, its two extrema the first and the last sample
ScenarioA ==
    /\ Len(speedies) = 1
    /\ ~speedies[1].none
    /\ ~alt_rad.supplied
    /\ cycles[1] = Cycles(<<speedies[1].start, speedies[1].stop - 1>>)
    /\ alt_std[speedies[1].start].v < alt_std[speedies[1].stop - 1].v
    /\ \A i \in speedies[1].start .. (speedies[1].stop - 2) :
          alt_std[i].v <= alt_std[i + 1].v

\* C8: in Scenario A there is one dip, of type land, its ground the first
\* extremum, and the output over the slice is the input less its first sample
C8_ScenarioAShifted ==
    (pc = "done" /\ ScenarioA) =>
        /\ Len(dips) = 1
        /\ dips[1].type = "land"
        /\ dips[1].highest_ground = alt_std[speedies[1].start].v
        /\ \A i \in speedies[1].start .. (speedies[1].stop - 1) :
              Output[i] = Valid(alt_std[i].v - alt_std[speedies[1].start].v)

\* C9: the post-pass run again on the dip list it has produced leaves every
\* highest_ground as it is
C9_PostPassIdempotent ==
    pc = "compute" =>
        LET again == PostPassLoop(dips)
        IN  \A d \in 1 .. Len(dips) :
                again[d].highest_ground = dips[d].highest_ground

\* an interior dip of type high whose ground the post-pass has lowered
C9_Witness ==
    /\ pc = "compute"
    /\ \E d \in 2 .. (Len(dips) - 1) :
           /\ dips[d].type = "high"
           /\ dips[d].highest_ground < dips[d].alt_std

\* the classification of Fast slice j ends in the ValueError of line 939
ClassifyFault(j) ==
    /\ ~speedies[j].none
    /\ cycles[j].found
    /\ Classify(cycles[j], speedies[j], alt_std, alt_rad).raised

\* C10 as stated: no exception leaves derive for a fault found while
\* classifying a Fast slice
C10_FaultAbortsSliceOnly ==
    (AtSlice /\ ClassifyFault(k)) => pc # "raised"

\* C10 amended: derive never gets past a Fast slice with a classification
\* fault; reaching it, derive ends in the exception with self.array not
\* assigned and no later slice processed
C10_FaultLeavesDerive ==
    \A j \in 1 .. Len(speedies) :
        ClassifyFault(j) =>
            /\ k <= j
            /\ (k = j => (pc \in {"loop", "raised"} /\ ~self_array.assigned))

\* the exception has left derive at a faulty slice, with a Fast slice that has
\* extrema still to come
C10_Witness ==
    /\ pc = "raised"
    /\ AtSlice
    /\ ClassifyFault(k)
    /\ k < Len(speedies)
    /\ ~speedies[k + 1].none
    /\ cycles[k + 1].found
    /\ ~self_array.assigned

\* the while loop of the Fast slice the loop is at comes to position n of the
\* extrema (from 0): it starts at 0, moves on by one after a rising pair or
\* after the last falling pair, and by two after a V
RECURSIVE LoopComesTo(_)
LoopComesTo(n) ==
    \/ n = 0
    \/ /\ n >= 1
       /\ LoopComesTo(n - 1)
       /\ n < Len(Vals)
       /\ (Vals[n + 1] > Vals[n] \/ n + 1 >= Len(Vals))
    \/ /\ n >= 2
       /\ LoopComesTo(n - 2)
       /\ n < Len(Vals)
       /\ Vals[n] <= Vals[n - 1]
       /\ Vals[n + 1] > Vals[n]

\* at position n the loop is at a descending pair with an extremum ahead
\* that is not higher than the trough
PeakForDipAt(n) ==
    /\ n + 2 < Len(Vals)
    /\ LoopComesTo(n)
    /\ Vals[n + 2] <= Vals[n + 1]
    /\ Vals[n + 3] <= Vals[n + 2]

\* C11: at a peak where a dip is expected derive raises ValueError: the
\* Fast slice gets no post-pass, no heights and no output array, and the dip
\* list holds only the dips that end at or before that position
C11_PeakForDipRaises ==
    AtSlice =>
        \A n \in 0 .. (Len(Idxs) - 1) :
            PeakForDipAt(n) =>
                /\ pc \in {"loop", "raised"}
                /\ ~self_array.assigned
                /\ (pc = "raised" =>
                       \A d \in 1 .. Len(dips) :
                           /\ dips[d].slice.step = 1
                           /\ dips[d].slice.stop <= Idxs[n + 1])

\* the ValueError raised at a position after a first dip was built
C11_Witness ==
    /\ AtSlice
    /\ pc = "raised"
    /\ Len(dips) >= 1
    /\ \E n \in 1 .. (Len(Idxs) - 1) : PeakForDipAt(n)

------------------------------------------------------------------------------
(* Further properties of compute_aal (specification SpecCompute)            *)

\* [a, b) is a maximal run of in-band radio altitude
InBandRun(a, b) ==
    /\ a < b
    /\ \A i \in a .. (b - 1) : InBandAt(i)
    /\ (a = 0 \/ ~InBandAt(a - 1))
    /\ (b = DipLen \/ ~InBandAt(b))

\* the call has gone past the returns of lines 757-766
PastEarlyReturns ==
    /\ HasRadio
    /\ ~(Mode = "over_gnd"
          /\ dips[1].alt_std - dips[1].highest_ground > OVER_GND_CLEARANCE)

\* [a, b) is a radio section the loop of lines 793-805 works on
IsRadioSection(a, b) ==
    IF Mode = "land" THEN HasBounceRun /\ a = 0 /\ b = HundredFeet
    ELSE InBandRun(a, b)

\* a radio section whose pressure altitude is more than 10,000 ft, in the
\* mean, above the clipped radio altitude
SomeSectionDisagrees ==
    \E a \in 0 .. DipLen, b \in 0 .. DipLen :
        /\ IsRadioSection(a, b)
        /\ SensorsDisagree(alt_std, ClippedRadio, Slice(a, b))

\* C12: a dip with a radio section that fails the 10,000 ft comparison gets
\* the pressure-only result, the shift of the pressure altitude
C12_DisagreementFallsBack ==
    (pc = "returned" /\ PastEarlyReturns /\ SomeSectionDisagrees) =>
        alt_aal = shift_alt_std(alt_std).a

------------------------------------------------------------------------------
(* The dip slices of a Fast slice                                           *)

\* the extrema alternate between peaks and troughs
Alternating ==
    \A j \in 1 .. (Len(Vals) - 2) :
        (Vals[j + 1] > Vals[j]) # (Vals[j + 2] > Vals[j + 1])

\* the extrema span the Fast slice, from its first to its last sample
SpansSlice ==
    /\ Idxs[1] = speedies[k].start
    /\ Idxs[Len(Idxs)] = speedies[k].stop - 1

\* the array indices dip d covers
DipCover(d) ==
    LET ix == SliceIndices(dips[d].slice, ALen(alt_std))
    IN  {ix[j] : j \in 1 .. Len(ix)}

\* dip d covers exactly the indices lo .. hi-1
CoversRange(d, lo, hi) == lo < hi /\ DipCover(d) = lo .. (hi - 1)

\* C13: for an alternating extrema list (here: one that spans the Fast
\* slice) the dips in list order cover adjoining ranges that begin at the
\* slice start, and a final landing dip ends at the slice end
C13_DipsPartitionSlice ==
    (pc = "postpass" /\ AtSlice /\ Alternating /\ SpansSlice) =>
        \E b \in [0 .. Len(dips) -> speedies[k].start .. speedies[k].stop] :
            /\ Len(dips) >= 1
            /\ b[0] = speedies[k].start
            /\ \A d \in 1 .. Len(dips) : CoversRange(d, b[d - 1], b[d])
            /\ (Vals[Len(Vals)] < Vals[Len(Vals) - 1] => b[Len(dips)] = speedies[k].stop)

------------------------------------------------------------------------------
(* Fast slices without extrema, flights without radio altitude              *)

\* cycle_finder found no extrema for Fast slice j
NoExtrema(j) == (~speedies[j].none) /\ ~cycles[j].found

\* C17: a Fast slice without extrema gets no classification, no heights and
\* no error, its output samples are 0, and derive goes on to the output
C17_NoExtremaSkipped ==
    \A j \in 1 .. Len(speedies) :
        NoExtrema(j) =>
            /\ (k = j => pc = "loop")
            /\ (pc = "done" =>
                   \A i \in speedies[j].start .. (speedies[j].stop - 1) :
                       Output[i] = Valid(0))

\* no radio altitude: the parameter is absent or entirely masked
RadioAbsent == (~alt_rad.supplied) \/ MaCount(alt_rad.array) = 0

\* the extrema values of Fast slice j
ValsOf(j) == CycleVals(cycles[j].idxs, alt_std)

\* every extrema list of the flight alternates between peaks and troughs
AllAlternating ==
    \A j \in 1 .. Len(speedies) :
        cycles[j].found =>
            \A m \in 1 .. (Len(ValsOf(j)) - 2) :
                (ValsOf(j)[m + 1] > ValsOf(j)[m]) # (ValsOf(j)[m + 2] > ValsOf(j)[m + 1])

\* C18 (for well-formed, alternating extrema lists): without radio altitude
\* derive ends without an exception, every dip is of type land or high with
\* every V inside a dip of type high, and no output sample is negative
C18_NoRadioDegradesGracefully ==
    (RadioAbsent /\ AllAlternating) =>
        /\ pc # "raised"
        /\ (pc = "compute" /\ AtSlice) =>
               /\ \A d \in 1 .. Len(dips) : dips[d].type \in {"land", "high"}
               /\ \A j \in 1 .. Len(Idxs) :
                      IsV(j) =>
                          \E d \in 1 .. Len(dips) :
                              /\ dips[d].type = "high"
                              /\ dips[d].slice.start <= Idxs[j]
                              /\ Idxs[j + 2] <= dips[d].slice.stop
        /\ pc = "done" =>
               \A i \in DOMAIN Output : Output[i].ok => Output[i].v >= 0

------------------------------------------------------------------------------
(* VerticalSpeedInertial (analysis_engine/derived_parameters.py)            *)
(*                                                                          *)
(* Rates are integers in 1/2520 of a foot per second, so that the halves of *)
(* integrate and the steps of np.linspace over up to ten samples are whole. *)
(* The filters first_order_washout and first_order_lag are not computed:    *)
(* their outputs az_washout and nominal are inputs, one value per sample.   *)

Rate(x) == 2520 * x

\* az.frequency, in samples per second
hz == 1

\* slices_from_to(array, from_, to)[1]: the runs of samples inside the band
\* whose first sample is nearer from_ and whose last sample is nearer to
slices_from_to(array, from_, to) ==
    LET rep_array == masked_outside(array, Min2(from_, to), Max2(from_, to))
        Rising(s) == rep_array[s.start].v < rep_array[s.stop - 1].v
        Falling(s) == rep_array[s.start].v > rep_array[s.stop - 1].v
    IN  SelectSeq(clump_unmasked(rep_array),
                  LAMBDA s : IF from_ < to THEN Rising(s) ELSE Falling(s))

\* integrate(array, hz) at index i: the trapezoidal running sum from 0.0
RECURSIVE IntegrateAt(_, _)
IntegrateAt(array, i) ==
    IF i = 0 THEN 0
    ELSE IntegrateAt(array, i - 1) + ((array[i].v + array[i - 1].v) \div (2 * hz))

\* integrate(array, hz)
integrate(array) == [i \in DOMAIN array |-> Valid(IntegrateAt(array, i))]

\* np.linspace(start, stop, num): num values, the first is start and, when
\* there are two or more, the last is stop
linspace(start, stop, num) ==
    [i \in 0 .. (num - 1) |->
        IF num = 1 THEN start ELSE start + ((i * (stop - start)) \div (num - 1))]

\* the last element of a non-empty array, array[-1]
Last(array) == array[ALen(array) - 1]

\* lines 4300-4309 with a blend that ends at 0.0 instead of blend_end_error
ClimbStepUnblended(r, azw, climb) ==
    LET lift_m5s == Max2(0, climb.start - (5 * hz))
        up == Slice(lift_m5s, climb.stop)
        up_slope == integrate(Section(azw, up))
    IN  [i \in DOMAIN r |->
            IF i < lift_m5s THEN Valid(0)
            ELSE IF i < climb.stop THEN up_slope[i - lift_m5s]
            ELSE r[i]]

\* lines 4300-4309: one pass of the loop over climbs
ClimbStep(r, azw, climb) ==
    LET lift_m5s == Max2(0, climb.start - (5 * hz))
        up == Slice(lift_m5s, climb.stop)
        up_slope == integrate(Section(azw, up))
        blend_end_error == r[climb.stop - 1].v - Last(up_slope).v
        blend_slope == linspace(0, blend_end_error, climb.stop - climb.start)
    IN  [i \in DOMAIN r |->
            IF i < lift_m5s THEN Valid(0)
            ELSE IF i < climb.start THEN up_slope[i - lift_m5s]
            ELSE IF i < climb.stop
                 THEN Valid(up_slope[i - lift_m5s].v + blend_slope[i - climb.start])
            ELSE r[i]]

\* lines 4323-4330 with a blend that starts at 0.0 instead of blend
DescentStepUnblended(r, azw, descent) ==
    LET down == Slice(descent.start, descent.stop + (5 * hz))
        down_slope == integrate(Section(azw, down))
        blend_slope == linspace(0, 0 - Last(down_slope).v, ALen(down_slope))
    IN  [i \in DOMAIN r |->
            IF i < down.start THEN r[i]
            ELSE IF i < down.stop
                 THEN Valid(down_slope[i - down.start].v + blend_slope[i - down.start])
            ELSE Valid(0)]

\* lines 4323-4330: one pass of the loop over descents
DescentStep(r, azw, descent) ==
    LET down == Slice(descent.start, descent.stop + (5 * hz))
        down_slope == integrate(Section(azw, down))
        blend == r[down.start].v - down_slope[0].v
        blend_slope == linspace(blend, 0 - Last(down_slope).v, ALen(down_slope))
    IN  [i \in DOMAIN r |->
            IF i < down.start THEN r[i]
            ELSE IF i < down.stop
                 THEN Valid(down_slope[i - down.start].v + blend_slope[i - down.start])
            ELSE Valid(0)]

\* np_ma_masked_zeros_like(array)
np_ma_masked_zeros_like(a) == [i \in DOMAIN a |-> masked]

\* shift_slice(this_slice, offset)
shift_slice(this_slice, offset) ==
    Slice(this_slice.start + offset, this_slice.stop + offset)

\* lines 4368-4371: az_masked for a Fast slice
az_masked(speedy) ==
    LET a == Section(az_repair, speedy)
        s == Section(alt_std_repair, speedy)
    IN  [i \in DOMAIN a |-> IF a[i].ok /\ s[i].ok THEN a[i] ELSE masked]

\* the Fast slice and the clump the loops are at
Speedy == vsi_fast[at.speedy]

Clumps == clump_unmasked(az_masked(Speedy))

Clump == Clumps[at.clump]

\* the clump as a slice of the whole arrays
Run == shift_slice(Clump, Speedy.start)

\* alt_rad_repair[clump] and az_washout over the clump
RunRadio == Section(alt_rad_repair, Run)

RunWashout == Section(az_washout, Run)

climbs == slices_from_to(RunRadio, Ft(0), Ft(100))

descents == slices_from_to(RunRadio, Ft(100), Ft(0))

\* lines 4350, 4376: the loops are at a clump of a Fast slice
AtClump ==
    /\ vpc = "clump"
    /\ at.speedy <= Len(vsi_fast)
    /\ at.clump <= Len(Clumps)

\* lines 4280-4299: inertial_vertical_speed is called for the clump; roc is
\* the nominal signal
EnterClump ==
    /\ AtClump
    /\ roc' = Section(nominal, Run)
    /\ at' = [at EXCEPT !.band = 1]
    /\ vpc' = IF climbs # <<>> THEN "climbs"
              ELSE IF descents # <<>> THEN "descents" ELSE "return"
    /\ UNCHANGED <<az_repair, alt_std_repair, alt_rad_repair, az_washout, nominal,
                   vsi_fast, vsi_array, altitude_aal, stable_approach,
                   gear_up_selected, thrust_reversers>>

\* lines 4300-4309
ClimbOverride ==
    /\ vpc = "climbs"
    /\ roc' = ClimbStep(roc, RunWashout, climbs[at.band])
    /\ IF at.band < Len(climbs)
       THEN /\ at' = [at EXCEPT !.band = at.band + 1]
            /\ vpc' = vpc
       ELSE /\ at' = [at EXCEPT !.band = 1]
            /\ vpc' = IF descents # <<>> THEN "descents" ELSE "return"
    /\ UNCHANGED <<az_repair, alt_std_repair, alt_rad_repair, az_washout, nominal,
                   vsi_fast, vsi_array, altitude_aal, stable_approach,
                   gear_up_selected, thrust_reversers>>

\* lines 4323-4330
DescentOverride ==
    /\ vpc = "descents"
    /\ roc' = DescentStep(roc, RunWashout, descents[at.band])
    /\ IF at.band < Len(descents)
       THEN /\ at' = [at EXCEPT !.band = at.band + 1]
            /\ vpc' = vpc
       ELSE /\ at' = [at EXCEPT !.band = 1]
            /\ vpc' = "return"
    /\ UNCHANGED <<az_repair, alt_std_repair, alt_rad_repair, az_washout, nominal,
                   vsi_fast, vsi_array, altitude_aal, stable_approach,
                   gear_up_selected, thrust_reversers>>

\* an assignment at the indices of the clump inside the Fast slice, without
\* the shift by speedy.slice.start
StoreClumpUnshifted ==
    /\ vpc = "return"
    /\ vsi_array' = AssignSection(vsi_array, Clump,
                                  [i \in DOMAIN roc |-> Valid(roc[i].v * 60)])
    /\ at' = [at EXCEPT !.clump = at.clump + 1]
    /\ vpc' = "clump"
    /\ UNCHANGED <<az_repair, alt_std_repair, alt_rad_repair, az_washout, nominal,
                   vsi_fast, roc, altitude_aal, stable_approach,
                   gear_up_selected, thrust_reversers>>

\* lines 4344, 4377: return roc * 60.0, assigned to self.array over the clump
StoreClump ==
    /\ vpc = "return"
    /\ vsi_array' = AssignSection(vsi_array, Run,
                                  [i \in DOMAIN roc |-> Valid(roc[i].v * 60)])
    /\ at' = [at EXCEPT !.clump = at.clump + 1]
    /\ vpc' = "clump"
    /\ UNCHANGED <<az_repair, alt_std_repair, alt_rad_repair, az_washout, nominal,
                   vsi_fast, roc, altitude_aal, stable_approach,
                   gear_up_selected, thrust_reversers>>

\* line 4376: no clump is left in the Fast slice
NextSpeedy ==
    /\ vpc = "clump"
    /\ at.speedy <= Len(vsi_fast)
    /\ at.clump > Len(Clumps)
    /\ at' = [at EXCEPT !.speedy = at.speedy + 1, !.clump = 1]
    /\ UNCHANGED <<az_repair, alt_std_repair, alt_rad_repair, az_washout, nominal,
                   vsi_fast, vpc, roc, vsi_array, altitude_aal, stable_approach,
                   gear_up_selected, thrust_reversers>>

\* line 4350: no Fast slice is left
EndDerive ==
    /\ vpc = "clump"
    /\ at.speedy > Len(vsi_fast)
    /\ vpc' = "done"
    /\ UNCHANGED <<az_repair, alt_std_repair, alt_rad_repair, az_washout, nominal,
                   vsi_fast, at, roc, vsi_array, altitude_aal, stable_approach,
                   gear_up_selected, thrust_reversers>>

NextInertial ==
    \/ EnterClump
    \/ ClimbOverride
    \/ DescentOverride
    \/ StoreClump
    \/ NextSpeedy
    \/ EndDerive

\* AltitudeAAL out of the way
AltitudeIdle ==
    /\ alt_std = EmptyArray
    /\ alt_rad = NoRadio
    /\ speedies = <<>>
    /\ cycles = <<>>
    /\ pc = "idle"
    /\ k = 1
    /\ dips = <<>>
    /\ alt_aal = EmptyArray
    /\ self_array = [assigned |-> FALSE, array |-> EmptyArray]

\* line 4347, for these inputs
StartInertial(az, a_std, a_rad, azw, nom, speedy_list) ==
    /\ az_repair = az
    /\ alt_std_repair = a_std
    /\ alt_rad_repair = a_rad
    /\ az_washout = azw
    /\ nominal = nom
    /\ vsi_fast = speedy_list
    /\ vpc = "clump"
    /\ at = [speedy |-> 1, clump |-> 1, band |-> 1]
    /\ roc = EmptyArray
    /\ vsi_array = np_ma_masked_zeros_like(a_std)
    /\ AltitudeIdle
    /\ ApproachIdle
    /\ SelectedIdle
    /\ ReversersIdle

\* the arrays of n samples that hold the value a up to an index of splits and
\* the value b from there on
Steps(n, levels, splits) ==
    {[i \in 0 .. (n - 1) |-> IF i < m THEN Valid(a) ELSE Valid(b)] :
        a \in levels, b \in levels, m \in splits}

AllValid(n) == [i \in 0 .. (n - 1) |-> Valid(0)]

WashoutLevels == {Rate(-2), Rate(2)}

NominalLevels == {Rate(0), Rate(3)}

\* radio altitude inside the band (20 ft, 60 ft) and above it
BandLevels == {Valid(Ft(20)), Valid(Ft(60)), Valid(Ft(150))}

\* one run over the whole recording, any radio altitude
InitOverride ==
    \E a_rad \in [0 .. (RunSamples - 1) -> BandLevels] :
    \E azw \in Steps(RunSamples, WashoutLevels, {0, RunSamples \div 2}) :
    \E nom \in Steps(RunSamples, NominalLevels, 0 .. (RunSamples - 1)) :
        StartInertial(AllValid(RunSamples), AllValid(RunSamples), a_rad, azw, nom,
                      <<Slice(0, RunSamples)>>)

SpecOverride == InitOverride /\ [][NextInertial]_vars

\* radio altitudes of n samples with a band of two samples at each end and
\* 150 ft in between: two lifts, two touchdowns, or one of each
TwoBands(n) ==
    {[i \in 0 .. (n - 1) |->
         IF i = 0 THEN a ELSE IF i = 1 THEN b
         ELSE IF i = n - 2 THEN c ELSE IF i = n - 1 THEN d
         ELSE Valid(Ft(150))] :
        a \in BandLevels, b \in BandLevels, c \in BandLevels, d \in BandLevels}

\* one run over the whole recording, with a band at each end of it
InitTouchAndGo ==
    \E a_rad \in TwoBands(TouchSamples) :
    \E azw \in Steps(TouchSamples, WashoutLevels, {0, TouchSamples \div 2}) :
    \E nom \in Steps(TouchSamples, NominalLevels, {0, 1}) :
        StartInertial(AllValid(TouchSamples), AllValid(TouchSamples), a_rad, azw, nom,
                      <<Slice(0, TouchSamples)>>)

SpecTouchAndGo == InitTouchAndGo /\ [][NextInertial]_vars

\* the arrays of n valid samples, and those with one masked sample
OneMasked(n) ==
    {AllValid(n)} \cup
    {[i \in 0 .. (n - 1) |-> IF i = m THEN masked ELSE Valid(0)] : m \in 0 .. (n - 1)}

\* the radio altitudes of n samples that change level at most twice
Profiles(n) ==
    {r \in [0 .. (n - 1) -> BandLevels] :
        Cardinality({i \in 1 .. (n - 1) : r[i] # r[i - 1]}) <= 2}

\* Fast over the whole recording, over all but its first or last sample, or
\* in two slices
FastChoices(n) ==
    {<<Slice(0, n)>>, <<Slice(1, n)>>, <<Slice(0, n - 1)>>, <<Slice(0, 1), Slice(1, n)>>}

\* a recording with at most one masked sample of acceleration or of pressure
\* altitude
InitInertial ==
    \E a_rad \in Profiles(InertialSamples) :
    \E az \in OneMasked(InertialSamples) :
    \E a_std \in OneMasked(InertialSamples) :
    \E azw \in Steps(InertialSamples, {Rate(2)}, {0}) :
    \E speedy_list \in FastChoices(InertialSamples) :
        /\ az = AllValid(InertialSamples) \/ a_std = AllValid(InertialSamples)
        /\ StartInertial(az, a_std, a_rad, azw,
                         [i \in 0 .. (InertialSamples - 1) |-> Valid(Rate(3))],
                         speedy_list)

SpecInertial == InitInertial /\ [][NextInertial]_vars

------------------------------------------------------------------------------
(* Properties of inertial_vertical_speed                                    *)

\* roc_alt_std + inertial_roc over the clump: roc before any override
RunNominal == Section(nominal, Run)

\* C14: the climb override leaves the last sample of its band, the one
\* nearest 100 ft, at the value it had before the override, and that value
\* is the nominal one: the blended error at the end of the band is zero
C14_ClimbEndKeepsNominal ==
    [][ClimbOverride =>
          LET end == climbs[at.band].stop - 1
          IN  /\ roc'[end] = roc[end]
              /\ roc[end] = RunNominal[end]]_vars

\* a run with one climb band and no descent band, after the override: the
\* first sample of the band is rewritten, the last one holds the nominal value
C14_Witness ==
    /\ vpc = "return"
    /\ Len(climbs) = 1
    /\ descents = <<>>
    /\ roc[climbs[1].start] # RunNominal[climbs[1].start]
    /\ roc[climbs[1].stop - 1] = RunNominal[climbs[1].stop - 1]
    /\ RunNominal[climbs[1].stop - 1].v # 0

\* C15 as stated: the descent override leaves the last sample of its band,
\* the one nearest 0 ft, at the nominal value
C15_DescentEndKeepsNominal ==
    [][DescentOverride =>
          LET end == descents[at.band].stop - 1
          IN  roc'[end] = RunNominal[end]]_vars

\* C15 amended: the descent override leaves the first sample of its band,
\* the one nearest 100 ft, at the value it had before the override, which is
\* the nominal one for the first descent band of a run without climb bands
C15_DescentStartKeepsValue ==
    [][DescentOverride =>
          LET begin == descents[at.band].start
          IN  /\ roc'[begin] = roc[begin]
              /\ (at.band = 1 /\ climbs = <<>>) => roc'[begin] = RunNominal[begin]]_vars

\* a run with one descent band and no climb band, after the override: the
\* first sample of the band holds the nominal value, the last one does not
C15_Witness ==
    /\ vpc = "return"
    /\ Len(descents) = 1
    /\ climbs = <<>>
    /\ roc[descents[1].start] = RunNominal[descents[1].start]
    /\ roc[descents[1].stop - 1] # RunNominal[descents[1].stop - 1]
    /\ RunNominal[descents[1].start].v # 0

------------------------------------------------------------------------------
(* Properties of VerticalSpeedInertial.derive                               *)

\* sample i lies in a Fast slice
InVsiFast(i) ==
    \E j \in 1 .. Len(vsi_fast) : vsi_fast[j].start <= i /\ i < vsi_fast[j].stop

\* C16: at every moment of derive the output is masked at each sample that
\* is outside all Fast slices or at which the repaired acceleration or the
\* repaired pressure altitude is masked
C16_MaskedOutsideRuns ==
    \A i \in DOMAIN vsi_array :
        (~InVsiFast(i) \/ ~az_repair[i].ok \/ ~alt_std_repair[i].ok) =>
            ~vsi_array[i].ok

\* derive is over for a run that begins after a masked first sample and ends
\* in a climb band: the override has zeroed the run before the lift (samples
\* 1 and 2 are 0.0, sample 3 is not) and the first sample is still masked
C16_Witness ==
    /\ vpc = "done"
    /\ ~alt_std_repair[0].ok
    /\ ~vsi_array[0].ok
    /\ vsi_array[1] = Valid(0)
    /\ vsi_array[2] = Valid(0)
    /\ vsi_array[3].ok /\ vsi_array[3].v # 0

------------------------------------------------------------------------------
(* StableApproach (analysis_engine/multistate_parameters.py)                *)
(*                                                                          *)
(* ILS deviations are integers in tenths of a dot and EPR in tenths; the    *)
(* other parameters are in their own units.  The arrays of params are the   *)
(* prepared ones: what repair_mask and moving_average return.               *)

STABLE_HEADING == 10
STABLE_AIRSPEED_BELOW_VAPP == -5
STABLE_AIRSPEED_ABOVE_VAPP == 10
STABLE_AIRSPEED_BELOW_REF == 0
STABLE_AIRSPEED_ABOVE_REF == 30
GLIDE_ESTABLISHED == 15
STABLE_GLIDESLOPE == 10
STABLE_LOCALIZER == 10
STABLE_VERTICAL_SPEED_MIN == -1000
STABLE_VERTICAL_SPEED_MAX == -200
STABLE_N1_MIN_B787 == 35
STABLE_N1_MIN == 45
STABLE_EPR_MIN == 11
AFTER_LANDING == 10
ILS_HEIGHT == 200
LOW_HEIGHT == 50
ESTABLISHED_HEIGHT == 1000

\* an optional parameter that is not supplied, and one that is
None == [supplied |-> FALSE, array |-> EmptyArray]

P(a) == [supplied |-> TRUE, array |-> a]

\* a masked element of a boolean masked array
MaskedBool == [ok |-> FALSE, v |-> FALSE]

Abs(x) == IF x < 0 THEN 0 - x ELSE x

\* the first n at which array[n] and array[n+1] lie on either side of the
\* threshold, or one of them on it
Crossings(array, threshold) ==
    {n \in 0 .. (ALen(array) - 2) :
        /\ array[n].ok
        /\ array[n + 1].ok
        /\ (array[n].v - threshold) * (array[n + 1].v - threshold) <= 0}

\* index_at_value(array, threshold): the position at which the array first
\* crosses the threshold, interpolated between two samples.  index is the
\* position truncated to a sample, as an index expression truncates it;
\* zero says that the position is exactly 0.0
index_at_value(array, threshold) ==
    LET X == Crossings(array, threshold)
    IN  IF X = {} THEN [found |-> FALSE, index |-> 0, zero |-> FALSE]
        ELSE LET n == CHOOSE x \in X : \A y \in X : x <= y
                 a == array[n].v
                 b == array[n + 1].v
             IN  [found |-> TRUE,
                  index |-> IF a # b /\ b = threshold THEN n + 1 ELSE n,
                  zero  |-> n = 0 /\ a # b /\ a = threshold]

\* index_closest_value(array, threshold): index_at_value, or without a
\* crossing the first index at which the array is nearest the threshold
index_closest_value(array, threshold) ==
    LET at_value == index_at_value(array, threshold)
        ok == {i \in DOMAIN array : array[i].ok}
        Gap(i) == Abs(array[i].v - threshold)
    IN  IF at_value.found THEN at_value.index
        ELSE CHOOSE i \in ok :
                 \A j \in ok : Gap(i) < Gap(j) \/ (Gap(i) = Gap(j) /\ i <= j)

\* masked_boolean_array.filled(default)
Filled(b, default) == [i \in DOMAIN b |-> IF b[i].ok THEN b[i].v ELSE default]

\* array == value, elementwise: a masked sample stays masked
Equals(array, value) ==
    [i \in DOMAIN array |-> IF array[i].ok THEN Valid(array[i].v = value) ELSE MaskedBool]

\* abs(array) <= limit
AbsWithin(array, limit) ==
    [i \in DOMAIN array |-> IF array[i].ok THEN Valid(Abs(array[i].v) <= limit) ELSE MaskedBool]

\* (array >= low) & (array <= high)
Between(array, low, high) ==
    [i \in DOMAIN array |->
        IF array[i].ok THEN Valid(array[i].v >= low /\ array[i].v <= high) ELSE MaskedBool]

\* a carry-forward from the threshold itself: samples under the threshold
\* take the result of the last sample of the approach
ExtendFromEnd(b, altitude, threshold, index) ==
    [i \in DOMAIN b |-> IF altitude[i].v < threshold THEN Last(b) ELSE b[i]]

\* stable_x[altitude < threshold] = stable_x[index]
Extend(b, altitude, threshold, index) ==
    [i \in DOMAIN b |-> IF altitude[i].v < threshold THEN b[index] ELSE b[i]]

\* a step that numbers every sample of the approach, stable so far or not
StepOverwrite(s, number, assessed, stable_x, default) ==
    IF ~assessed THEN s
    ELSE [array  |-> [i \in DOMAIN s.array |-> number],
          stable |-> [i \in DOMAIN s.stable |-> s.stable[i] /\ Filled(stable_x, default)[i]]]

\* self.array[_slice][stable] = number; stable &= stable_x.filled(default)
Step(s, number, assessed, stable_x, default) ==
    IF ~assessed THEN s
    ELSE [array  |-> [i \in DOMAIN s.array |-> IF s.stable[i] THEN number ELSE s.array[i]],
          stable |-> [i \in DOMAIN s.stable |-> s.stable[i] /\ Filled(stable_x, default)[i]]]

\* np.ma.max(flap_lever): found = FALSE stands for np.ma.masked
MaMax(a) ==
    LET ok == {i \in DOMAIN a : a[i].ok}
    IN  IF ok = {} THEN [found |-> FALSE, value |-> 0]
        ELSE [found |-> TRUE,
              value |-> CHOOSE m \in {a[i].v : i \in ok} : \A i \in ok : a[i].v <= m]

\* the approach as it is given
ApproachSliceWhole(p, approach) == Slice(approach.start, approach.stop)

\* lines 1605-1610: the slice of the approach, cut 10 seconds after landing
ApproachSlice(p, approach) ==
    LET gnd == index_at_value(Section(p.alt, approach), 0)
        at_gnd == approach.start + gnd.index
    IN  IF gnd.found /\ ~(gnd.zero /\ approach.start = 0)
           /\ at_gnd + AFTER_LANDING < approach.stop
        THEN Slice(approach.start, at_gnd + AFTER_LANDING)
        ELSE Slice(approach.start, approach.stop)

\* lines 1627-1636
Prepare(p, approach) ==
    LET s == ApproachSlice(p, approach)
        altitude == Section(p.alt, s)
        at_1000 == index_at_value(altitude, ESTABLISHED_HEIGHT)
        glideslope == Section(p.gdev.array, s)
    IN  [slice |-> s,
         index_at_50 |-> index_closest_value(altitude, LOW_HEIGHT),
         index_at_200 |-> index_closest_value(altitude, ILS_HEIGHT),
         glide_est_at_1000ft |->
             /\ p.gdev.supplied
             /\ p.ldev.supplied
             /\ at_1000.found
             /\ ~at_1000.zero
             /\ glideslope[at_1000.index].ok
             /\ Abs(glideslope[at_1000.index].v) < GLIDE_ESTABLISHED]

\* lines 1638-1728: the numbers of the samples of the approach
Assess(p, q) ==
    LET gear_down == Section(p.gear, q.slice)
        flap_lever == Section(p.flap, q.slice)
        track_dev == Section(p.tdev, q.slice)
        airspeed == Section(p.aspd.array, q.slice)
        glideslope == Section(p.gdev.array, q.slice)
        localizer == Section(p.ldev.array, q.slice)
        vertical_speed == Section(p.vspd, q.slice)
        engine == Section(IF p.eng_epr.supplied THEN p.eng_epr.array
                          ELSE p.eng_n1.array, q.slice)
        altitude == Section(p.alt, q.slice)
        landing_flap == MaMax(flap_lever)
        below_ref == IF p.vapp THEN STABLE_AIRSPEED_BELOW_VAPP ELSE STABLE_AIRSPEED_BELOW_REF
        above_ref == IF p.vapp THEN STABLE_AIRSPEED_ABOVE_VAPP ELSE STABLE_AIRSPEED_ABOVE_REF
        n1_min == IF p.family = "B787" THEN STABLE_N1_MIN_B787 ELSE STABLE_N1_MIN
        eng_minimum == IF p.eng_epr.supplied THEN STABLE_EPR_MIN ELSE n1_min
        landing_gear_set == Equals(gear_down, 1)
        landing_flap_set == Equals(flap_lever, landing_flap.value)
        stable_track_dev == AbsWithin(track_dev, STABLE_HEADING)
        stable_airspeed == Extend(Between(airspeed, below_ref, above_ref),
                                  altitude, LOW_HEIGHT, q.index_at_50)
        stable_gs == Extend(AbsWithin(glideslope, STABLE_GLIDESLOPE),
                            altitude, ILS_HEIGHT, q.index_at_200)
        stable_loc == Extend(AbsWithin(localizer, STABLE_LOCALIZER),
                             altitude, ILS_HEIGHT, q.index_at_200)
        stable_vert == Extend(Between(vertical_speed, STABLE_VERTICAL_SPEED_MIN,
                                      STABLE_VERTICAL_SPEED_MAX),
                              altitude, LOW_HEIGHT, q.index_at_50)
        over_1000 == [i \in DOMAIN engine |->
                         IF engine[i].ok
                         THEN Valid(engine[i].v >= eng_minimum
                                    \/ altitude[i].v > ESTABLISHED_HEIGHT)
                         ELSE MaskedBool]
        stable_engine == Extend(over_1000, altitude, LOW_HEIGHT, q.index_at_50)
        s1 == [array  |-> [i \in DOMAIN altitude |-> 1],
               stable |-> Filled(landing_gear_set, TRUE)]
        s2 == Step(s1, 2, TRUE,
                   IF landing_flap.found THEN landing_flap_set
                   ELSE [i \in DOMAIN altitude |-> Valid(TRUE)], TRUE)
        s3 == Step(s2, 3, TRUE, stable_track_dev, TRUE)
        s4 == Step(s3, 4, p.aspd.supplied, stable_airspeed, TRUE)
        s5 == Step(s4, 5, q.glide_est_at_1000ft, stable_gs, FALSE)
        s6 == Step(s5, 6, q.glide_est_at_1000ft, stable_loc, FALSE)
        s7 == Step(s6, 7, TRUE, stable_vert, TRUE)
        s8 == Step(s7, 8, TRUE, stable_engine, TRUE)
    IN  [i \in DOMAIN altitude |-> IF s8.stable[i] THEN 9 ELSE s8.array[i]]

\* line 1603: the loop is at an approach
AtApproach == sa_k <= Len(params.apps)

\* lines 1605-1636
PrepareApproach ==
    /\ sa_pc = "loop"
    /\ AtApproach
    /\ prep' = Prepare(params, params.apps[sa_k])
    /\ sa_pc' = "prepared"
    /\ UNCHANGED <<params, sa_k, stable_array, altitude_aal, inertial,
                 gear_up_selected, thrust_reversers>>

\* lines 1638-1728
AssessApproach ==
    /\ sa_pc = "prepared"
    /\ stable_array' = AssignSection(stable_array, prep.slice,
                                     [i \in DOMAIN Assess(params, prep) |->
                                         Valid(Assess(params, prep)[i])])
    /\ sa_k' = sa_k + 1
    /\ sa_pc' = "loop"
    /\ UNCHANGED <<params, prep, altitude_aal, inertial,
                 gear_up_selected, thrust_reversers>>

\* line 1731
ReturnApproaches ==
    /\ sa_pc = "loop"
    /\ ~AtApproach
    /\ sa_pc' = "done"
    /\ UNCHANGED <<params, sa_k, prep, stable_array, altitude_aal, inertial,
                 gear_up_selected, thrust_reversers>>

NextApproach ==
    \/ PrepareApproach
    \/ AssessApproach
    \/ ReturnApproaches

\* lines 1598-1599, for these parameters
StartApproach(p) ==
    /\ params = p
    /\ sa_pc = "loop"
    /\ sa_k = 1
    /\ prep = <<>>
    /\ stable_array = np_ma_masked_zeros_like(p.alt)
    /\ AltitudeIdle
    /\ InertialIdle
    /\ SelectedIdle
    /\ ReversersIdle

------------------------------------------------------------------------------
(* The approaches derive is run on: a descent on which every parameter is   *)
(* inside its limits, but for one or two samples                            *)

\* which optional parameters are supplied
Recorded == [aspd |-> TRUE, gdev |-> TRUE, ldev |-> TRUE, vapp |-> FALSE,
             eng_epr |-> FALSE, family |-> "none"]

Configurations ==
    {Recorded,
     [Recorded EXCEPT !.aspd = FALSE],
     [Recorded EXCEPT !.ldev = FALSE],
     [Recorded EXCEPT !.vapp = TRUE],
     [Recorded EXCEPT !.eng_epr = TRUE],
     [Recorded EXCEPT !.family = "B787"]}

Criteria == 1 .. 8

\* a sample inside the limits of every configuration
Inside(c, cfg) ==
    CASE c = 1 -> Valid(1)
      [] c = 2 -> Valid(30)
      [] c = 3 -> Valid(2)
      [] c = 4 -> Valid(5)
      [] c = 5 -> Valid(5)
      [] c = 6 -> Valid(0)
      [] c = 7 -> Valid(-500)
      [] c = 8 -> IF cfg.eng_epr THEN Valid(12) ELSE Valid(80)

\* a sample outside the limits ("out"), on or near a limit ("edge"), masked
Outside(c, kind, cfg) ==
    IF kind = "masked" THEN masked
    ELSE CASE c = 1 -> Valid(0)
           [] c = 2 -> Valid(15)
           [] c = 3 -> IF kind = "out" THEN Valid(-20) ELSE Valid(10)
           [] c = 4 -> IF kind = "out" THEN Valid(50) ELSE Valid(20)
           [] c = 5 -> IF kind = "out" THEN Valid(-12) ELSE Valid(20)
           [] c = 6 -> IF kind = "out" THEN Valid(20) ELSE Valid(10)
           [] c = 7 -> IF kind = "out" THEN Valid(-1800) ELSE Valid(-100)
           [] c = 8 -> IF cfg.eng_epr
                       THEN IF kind = "out" THEN Valid(10) ELSE Valid(11)
                       ELSE IF kind = "out" THEN Valid(30) ELSE Valid(40)

KindsOf(c) == IF c <= 2 THEN {"out", "masked"} ELSE {"out", "edge", "masked"}

\* the samples of n that depart from Inside
Departures(n, criteria) ==
    {[sample |-> i, criterion |-> c, kind |-> kd] :
        i \in 0 .. (n - 1), c \in criteria, kd \in {"out", "edge", "masked"}}

\* none, one, or two at one sample that are out of limits or masked
AtOneSample(n) ==
    LET D == {d \in Departures(n, Criteria) : d.kind \in KindsOf(d.criterion)}
    IN  {{}} \cup {{d} : d \in D} \cup
        {{q[1], q[2]} : q \in {r \in D \X D : /\ r[1].sample = r[2].sample
                                              /\ r[1].criterion < r[2].criterion
                                              /\ r[1].kind # "edge"
                                              /\ r[2].kind # "edge"}}

\* none, one, or two of one criterion
OfOneCriterion(n, criteria) ==
    LET D == Departures(n, criteria)
    IN  {{}} \cup {{d} : d \in D} \cup
        {{q[1], q[2]} : q \in {r \in D \X D : /\ r[1].criterion = r[2].criterion
                                              /\ r[1].sample < r[2].sample}}

ApproachLevels == {1200, 300, 200, 100, 50, 30}

\* the altitudes of n samples that fall from each sample to the next
Descents(n) ==
    {a \in [0 .. (n - 1) -> {Valid(h) : h \in ApproachLevels}] :
        \A i \in 1 .. (n - 1) : a[i].v < a[i - 1].v}

\* the prepared array of criterion c
Column(n, c, D, cfg) ==
    [i \in 0 .. (n - 1) |->
        IF \E d \in D : d.sample = i /\ d.criterion = c
        THEN Outside(c, (CHOOSE d \in D : d.sample = i /\ d.criterion = c).kind, cfg)
        ELSE Inside(c, cfg)]

Parameters(n, cfg, altitude, D, approaches) ==
    [apps    |-> approaches,
     gear    |-> Column(n, 1, D, cfg),
     flap    |-> Column(n, 2, D, cfg),
     tdev    |-> Column(n, 3, D, cfg),
     aspd    |-> IF cfg.aspd THEN P(Column(n, 4, D, cfg)) ELSE None,
     gdev    |-> IF cfg.gdev THEN P(Column(n, 5, D, cfg)) ELSE None,
     ldev    |-> IF cfg.ldev THEN P(Column(n, 6, D, cfg)) ELSE None,
     vspd    |-> Column(n, 7, D, cfg),
     eng_n1  |-> IF cfg.eng_epr THEN None ELSE P(Column(n, 8, D, cfg)),
     eng_epr |-> IF cfg.eng_epr THEN P(Column(n, 8, D, cfg)) ELSE None,
     alt     |-> altitude,
     vapp    |-> cfg.vapp,
     family  |-> cfg.family]

\* one approach over the recording, or over all but its first sample
ApproachChoices(n) == {<<Slice(0, n)>>, <<Slice(1, n)>>}

\* short approaches over the whole recording, any two criteria failing at
\* one sample
InitCascade ==
    \E cfg \in Configurations :
    \E altitude \in Descents(CascadeSamples) :
    \E D \in AtOneSample(CascadeSamples) :
        StartApproach(Parameters(CascadeSamples, cfg, altitude, D,
                                 <<Slice(0, CascadeSamples)>>))

SpecCascade == InitCascade /\ [][NextApproach]_vars

\* longer approaches, the criteria with a height threshold failing at one or
\* two samples
InitCarry ==
    \E cfg \in {Recorded, [Recorded EXCEPT !.eng_epr = TRUE]} :
    \E altitude \in Descents(CarrySamples) :
    \E D \in OfOneCriterion(CarrySamples, 4 .. 8) :
    \E approaches \in ApproachChoices(CarrySamples) :
        StartApproach(Parameters(CarrySamples, cfg, altitude, D, approaches))

SpecCarry == InitCarry /\ [][NextApproach]_vars

\* an altitude that falls by 30 ft a sample to the ground at sample g, and
\* stays there; g = n: the ground is not reached
Touchdowns(n) ==
    {[i \in 0 .. (n - 1) |-> Valid(IF i < g THEN 30 * (g - i) ELSE 0)] :
        g \in {1, 2, 3, n}}

\* one approach anywhere in the recording, or two that leave a sample out
LandingChoices(n) ==
    {<<Slice(a, b)>> : a \in 0 .. (n - 1), b \in 1 .. n} \cup
    {<<Slice(0, a), Slice(a + 1, n)>> : a \in 1 .. (n - 2)}

\* approaches that go on after the landing, one sample at most out of limits
InitLanding ==
    \E altitude \in Touchdowns(LandingSamples) :
    \E D \in {{}} \cup {{d} : d \in {x \in Departures(LandingSamples, {1, 5, 8}) :
                                         x.kind = "out"}} :
    \E approaches \in {c \in LandingChoices(LandingSamples) : c[1].start < c[1].stop} :
        StartApproach(Parameters(LandingSamples, Recorded, altitude, D, approaches))

SpecLanding == InitLanding /\ [][NextApproach]_vars

------------------------------------------------------------------------------
(* Properties of StableApproach.derive                                      *)

\* an approach has been assessed (prep is the one of the last)
Assessed == sa_k > 1

\* the samples of the approach, as indices of the recording
ApproachSamples == prep.slice.start .. (Min2(prep.slice.stop, ALen(params.alt)) - 1)

\* the height under which criterion c is not monitored (0: at any height)
Threshold(c) ==
    IF c \in {5, 6} THEN ILS_HEIGHT
    ELSE IF c \in {4, 7, 8} THEN LOW_HEIGHT ELSE 0

\* the prepared array that criterion c reads
Reads(c) ==
    CASE c = 1 -> params.gear
      [] c = 2 -> params.flap
      [] c = 3 -> params.tdev
      [] c = 4 -> params.aspd.array
      [] c = 5 -> params.gdev.array
      [] c = 6 -> params.ldev.array
      [] c = 7 -> params.vspd
      [] c = 8 -> IF params.eng_epr.supplied THEN params.eng_epr.array
                  ELSE params.eng_n1.array

\* the greatest flap of the approach
MaxFlap ==
    CHOOSE m \in {params.flap[j].v : j \in {x \in ApproachSamples : params.flap[x].ok}} :
        \A j \in ApproachSamples : params.flap[j].ok => params.flap[j].v <= m

\* the value x meets criterion c (at height h)
InLimits(c, x, h) ==
    CASE c = 1 -> x = 1
      [] c = 2 -> x = MaxFlap
      [] c = 3 -> Abs(x) <= STABLE_HEADING
      [] c = 4 -> IF params.vapp
                  THEN STABLE_AIRSPEED_BELOW_VAPP <= x /\ x <= STABLE_AIRSPEED_ABOVE_VAPP
                  ELSE STABLE_AIRSPEED_BELOW_REF <= x /\ x <= STABLE_AIRSPEED_ABOVE_REF
      [] c = 5 -> Abs(x) <= STABLE_GLIDESLOPE
      [] c = 6 -> Abs(x) <= STABLE_LOCALIZER
      [] c = 7 -> STABLE_VERTICAL_SPEED_MIN <= x /\ x <= STABLE_VERTICAL_SPEED_MAX
      [] c = 8 -> \/ h > ESTABLISHED_HEIGHT
                  \/ x >= (IF params.eng_epr.supplied THEN STABLE_EPR_MIN
                           ELSE IF params.family = "B787" THEN STABLE_N1_MIN_B787
                           ELSE STABLE_N1_MIN)

\* criterion c is met by sample j: a masked sample meets every criterion
\* but those of the ILS
Holds(c, j) ==
    IF Reads(c)[j].ok THEN InLimits(c, Reads(c)[j].v, params.alt[j].v)
    ELSE c \notin {5, 6}

\* criterion c is assessed on this approach
IsAssessed(c) ==
    CASE c = 4 -> params.aspd.supplied
      [] c \in {5, 6} -> prep.glide_est_at_1000ft
      [] OTHER -> TRUE

\* the sample whose result stands for sample i under the threshold of c:
\* the one derive has found
Found(c, i) ==
    IF params.alt[i].v >= Threshold(c) THEN i
    ELSE prep.slice.start + (IF c \in {5, 6} THEN prep.index_at_200 ELSE prep.index_at_50)

\* the samples of the approach at or above the threshold of criterion c
AtOrAbove(c) == {j \in ApproachSamples : params.alt[j].v >= Threshold(c)}

\* the last sample at or above the threshold of c
LastAtOrAbove(c) == CHOOSE j \in AtOrAbove(c) : \A x \in AtOrAbove(c) : x <= j

\* the sample whose result stands for sample i: under the threshold of c,
\* the last sample at or above it
Carried(c, i) ==
    IF params.alt[i].v >= Threshold(c) THEN i ELSE LastAtOrAbove(c)

\* the number of the first assessed criterion not met, or 9, with the result
\* under a threshold taken from the sample derive has found, or from the
\* last sample at or above the threshold
FirstNotMet(i, from_last) ==
    LET failing == {c \in Criteria :
                       /\ IsAssessed(c)
                       /\ ~Holds(c, IF from_last THEN Carried(c, i) ELSE Found(c, i))}
    IN  IF failing = {} THEN 9
        ELSE CHOOSE c \in failing : \A d \in failing : c <= d

\* C19: every sample of an assessed approach has the number of the first
\* assessed criterion, in the order 1 .. 8, that it does not meet, and 9 if
\* it meets them all; airspeed is assessed when supplied, the ILS criteria
\* when both are supplied and the glideslope was held at 1000 ft
C19_FirstFailingCriterion ==
    Assessed =>
        \A i \in ApproachSamples : stable_array[i] = Valid(FirstNotMet(i, FALSE))

\* a sample that fails two assessed criteria and has the number of the lower
C19_Witness ==
    /\ Assessed
    /\ \E i \in ApproachSamples : \E c, d \in Criteria :
          /\ c < d
          /\ IsAssessed(c) /\ ~Holds(c, Found(c, i))
          /\ IsAssessed(d) /\ ~Holds(d, Found(d, i))
          /\ \A b \in 1 .. (c - 1) : IsAssessed(b) => Holds(b, Found(b, i))
          /\ stable_array[i] = Valid(c)

\* C20: on an approach that comes from above the thresholds, a sample under
\* the threshold of a criterion is numbered with the result that criterion
\* had at the last sample at or above the threshold
C20_CarriedFromLastAbove ==
    Assessed =>
        \A i \in ApproachSamples :
            (\A c \in Criteria : AtOrAbove(c) # {}) =>
                stable_array[i] = Valid(FirstNotMet(i, TRUE))

\* a sample under the threshold of a criterion that it meets itself, with
\* the number of that criterion, because the last sample at or above the
\* threshold did not meet it
C20_Witness ==
    /\ Assessed
    /\ \E i \in ApproachSamples : \E c \in 4 .. 8 :
          /\ IsAssessed(c)
          /\ params.alt[i].v < Threshold(c)
          /\ AtOrAbove(c) # {}
          /\ Holds(c, i)
          /\ ~Holds(c, LastAtOrAbove(c))
          /\ stable_array[i] = Valid(c)

\* the sample at which the altitude of the approach reaches 0
ReachesGround(app) ==
    {i \in app.start .. (app.stop - 1) : params.alt[i].ok /\ params.alt[i].v <= 0}

\* where the assessment of the approach stops
AssessedStop(app) ==
    IF ReachesGround(app) = {} THEN app.stop
    ELSE LET gnd == CHOOSE i \in ReachesGround(app) : \A j \in ReachesGround(app) : i <= j
         IN  IF gnd + AFTER_LANDING < app.stop THEN gnd + AFTER_LANDING ELSE app.stop

\* sample i is assessed
IsAssessedSample(i) ==
    \E n \in 1 .. Len(params.apps) :
        params.apps[n].start <= i /\ i < AssessedStop(params.apps[n])

\* C21: the output has the length of Altitude AAL; a sample inside an
\* approach, up to 10 samples after the altitude has reached 0, is unmasked
\* with a number in 1 .. 9; every other sample is masked
C21_MaskedWhereNotAssessed ==
    sa_pc = "done" =>
        /\ ALen(stable_array) = ALen(params.alt)
        /\ \A i \in DOMAIN stable_array :
              IF IsAssessedSample(i)
              THEN stable_array[i].ok /\ stable_array[i].v \in 1 .. 9
              ELSE ~stable_array[i].ok

\* an approach that goes on for more than 10 samples after the ground is
\* reached: assessed and masked samples inside it, masked ones outside
C21_Witness ==
    /\ sa_pc = "done"
    /\ \E n \in 1 .. Len(params.apps) :
          /\ AssessedStop(params.apps[n]) < params.apps[n].stop
          /\ params.apps[n].start > 0
          /\ ~stable_array[0].ok
          /\ stable_array[params.apps[n].start].ok
          /\ ~stable_array[AssessedStop(params.apps[n])].ok

------------------------------------------------------------------------------
(* GearUpSelected (analysis_engine/multistate_parameters.py, lines 887-936) *)
(* A sample of a multistate array is [ok, v] with v the name of the state.  *)

\* a masked sample of a multistate array
MaskedState == [ok |-> FALSE, v |-> "masked"]

\* find_edges_on_state_change(state, array), each edge rounded up as line
\* 921 rounds it: the first sample of every run of the state that follows a
\* sample not in the state
find_edges_on_state_change(name, array) ==
    LET periods == Runs({i \in DOMAIN array : array[i].ok /\ array[i].v = name},
                        ALen(array))
        entered == {n \in 1 .. Len(periods) : periods[n].start > 0}
        Nth(j) == CHOOSE n \in entered : Cardinality({m \in entered : m < n}) = j - 1
    IN  [j \in 1 .. Cardinality(entered) |-> periods[Nth(j)].start]

\* line 915
start_warning == find_edges_on_state_change("Warning", gear.gear_warn.array)

\* the state at the sample of the edge
StateAtEdge(start) ==
    IF gear.gear_down[start].ok /\ gear.gear_down[start].v = "Down" THEN "Down" ELSE "Up"

\* line 923: 'Down' if gear_down.array[start-1] == 'Down' else 'Up'
StateBefore(start) ==
    IF gear.gear_down[start - 1].ok /\ gear.gear_down[start - 1].v = "Down"
    THEN "Down" ELSE "Up"

\* self.array[lo:hi] = value
SetStates(a, lo, hi, value) ==
    [i \in DOMAIN a |-> IF lo <= i /\ i < hi THEN [ok |-> TRUE, v |-> value] ELSE a[i]]

\* lines 913-918: the inverse of the gear down array
InvertGearDown ==
    /\ gus_pc = "call"
    /\ gus_array' = [i \in DOMAIN gear.gear_down |->
                        IF gear.gear_down[i].ok
                        THEN [ok |-> TRUE,
                              v  |-> IF gear.gear_down[i].v # "Down" THEN "Up" ELSE "Down"]
                        ELSE MaskedState]
    /\ gus_pc' = IF gear.gear_warn.supplied THEN "loop" ELSE "done"
    /\ last' = 0
    /\ state' = "Down"
    /\ gus_n' = 1
    /\ UNCHANGED <<gear, altitude_aal, inertial, stable_approach, thrust_reversers>>

\* lines 919-925: for start in start_warning
WarningStart ==
    /\ gus_pc = "loop"
    /\ gus_n <= Len(start_warning)
    /\ LET start == start_warning[gus_n]
       IN  /\ state' = StateBefore(start)
           /\ gus_array' = SetStates(gus_array, last, start + 1, StateBefore(start))
           /\ last' = start
    /\ gus_n' = gus_n + 1
    /\ UNCHANGED <<gear, gus_pc, altitude_aal, inertial, stable_approach, thrust_reversers>>

\* lines 926-932: the else of the for loop, which has no break
FinishOff ==
    /\ gus_pc = "loop"
    /\ gus_n > Len(start_warning)
    /\ gus_array' = SetStates(gus_array, last, ALen(gus_array),
                              IF state = "Down" THEN "Up" ELSE "Down")
    /\ gus_pc' = "done"
    /\ UNCHANGED <<gear, gus_n, last, state, altitude_aal, inertial, stable_approach,
                   thrust_reversers>>

NextSelected ==
    \/ InvertGearDown
    \/ WarningStart
    \/ FinishOff

\* gear down arrays: Down, Up or masked at each sample
GearArrays(n) ==
    [0 .. (n - 1) -> {[ok |-> TRUE, v |-> "Down"], [ok |-> TRUE, v |-> "Up"], MaskedState}]

\* red warning arrays, none of which comes on at the last sample only
WarnArrays(n) ==
    {w \in [0 .. (n - 1) -> {[ok |-> TRUE, v |-> "Warning"], [ok |-> TRUE, v |-> "-"]}] :
        ~(w[n - 1].v = "Warning" /\ w[n - 2].v # "Warning")}

\* derive is called with Gear Down, and with or without the red warning
InitSelected ==
    /\ \E gd \in GearArrays(GearSamples) :
       \E gw \in {None} \cup {P(w) : w \in WarnArrays(GearSamples)} :
           gear = [gear_down |-> gd, gear_warn |-> gw]
    /\ gus_pc = "call"
    /\ gus_n = 1
    /\ last = 0
    /\ state = "Down"
    /\ gus_array = EmptyArray
    /\ AltitudeIdle
    /\ InertialIdle
    /\ ApproachIdle
    /\ ReversersIdle

SpecSelected == InitSelected /\ [][NextSelected]_vars

------------------------------------------------------------------------------
(* ThrustReversers (analysis_engine/multistate_parameters.py, 1774-1884)    *)
(* tr_params holds the supplied parameters of derive as sequences of       *)
(* arrays: deployed, unlocked, transit (the Deployed, Unlocked and         *)
(* In Transit parameters of the engines) and status (e1_status, e2_status).*)

\* vstack_params_where_state((p, state) ...): one row p.array == state for
\* each parameter; a masked sample stays masked
vstack_params_where_state(arrays, name) ==
    [r \in 1 .. Len(arrays) |->
        [i \in DOMAIN arrays[r] |->
            IF arrays[r][i].ok THEN Valid(arrays[r][i].v = name) ELSE MaskedBool]]

\* stack.any(axis=0) at sample i, as np.ma.where reads it: a masked sample
\* is not counted, a column masked throughout is not true
AnyAt(stack, i) == \E r \in 1 .. Len(stack) : stack[r][i].ok /\ stack[r][i].v

\* stack.all(axis=0) at sample i, as np.ma.where reads it
AllAt(stack, i) ==
    /\ \E r \in 1 .. Len(stack) : stack[r][i].ok
    /\ \A r \in 1 .. Len(stack) : stack[r][i].ok => stack[r][i].v

\* the number of masked samples of the stack at sample i
MaskedAt(stack, i) == Cardinality({r \in 1 .. Len(stack) : ~stack[r][i].ok})

\* lines 1839-1884: the array derive leaves in self.array
ThrustReversers(q) ==
    LET deployed_stack == vstack_params_where_state(q.deployed \o q.status, "Deployed")
        unlocked_stack == IF q.unlocked # <<>>
                          THEN vstack_params_where_state(q.unlocked, "Unlocked")
                          ELSE <<>>
        transit_stack == IF q.transit # <<>>
                         THEN vstack_params_where_state(q.transit \o q.status, "In Transit")
                         ELSE <<>>
        mask_stack == deployed_stack \o unlocked_stack \o transit_stack
    IN  [i \in DOMAIN deployed_stack[1] |->
            IF 2 * MaskedAt(mask_stack, i) > Len(mask_stack) THEN masked
            ELSE IF AnyAt(transit_stack, i) THEN Valid(1)
            ELSE IF AllAt(deployed_stack, i) THEN Valid(2)
            ELSE IF AnyAt(deployed_stack, i) \/ AnyAt(unlocked_stack, i) THEN Valid(1)
            ELSE Valid(0)]

\* derive
DeriveReversers ==
    /\ tr_pc = "call"
    /\ tr_array' = ThrustReversers(tr_params)
    /\ tr_pc' = "done"
    /\ UNCHANGED <<tr_params, altitude_aal, inertial, stable_approach, gear_up_selected>>

NextReversers == DeriveReversers

\* the arrays of n samples over the states
StateArrays(n, states) ==
    [0 .. (n - 1) -> {[ok |-> TRUE, v |-> s] : s \in states}]

\* two parameters each of the kinds a and b, the names of their states,
\* over n samples; one sample of one of them may be masked
TwoEngines(n, a, b) ==
    LET A == StateArrays(n, {a, "-"})
        B == StateArrays(n, {b, "-"})
        plain == {<<w, x, y, z>> : w \in A, x \in A, y \in B, z \in B}
        Mask(q, r, i) == [q EXCEPT ![r] = [q[r] EXCEPT ![i] = MaskedState]]
    IN  plain \cup {Mask(q, r, i) : q \in plain, r \in 1 .. 4, i \in 0 .. (n - 1)}

\* the operational combinations of can_operate (lines 1797-1811) for two
\* engines without left and right parameters
ReverserParameters(n) ==
    {[deployed |-> <<q[1], q[2]>>, unlocked |-> <<q[3], q[4]>>,
      transit |-> <<>>, status |-> <<>>] : q \in TwoEngines(n, "Deployed", "Unlocked")}
    \cup
    {[deployed |-> <<q[1], q[2]>>, unlocked |-> <<>>,
      transit |-> <<q[3], q[4]>>, status |-> <<>>] : q \in TwoEngines(n, "Deployed", "In Transit")}
    \cup
    {[deployed |-> <<>>, unlocked |-> <<>>, transit |-> <<>>, status |-> <<x, y>>] :
        x \in StateArrays(n, {"Stowed", "In Transit", "Deployed"}),
        y \in StateArrays(n, {"Stowed", "In Transit", "Deployed"})}

InitReversers ==
    /\ tr_params \in ReverserParameters(ReverserSamples)
    /\ tr_pc = "call"
    /\ tr_array = EmptyArray
    /\ AltitudeIdle
    /\ InertialIdle
    /\ ApproachIdle
    /\ SelectedIdle

SpecReversers == InitReversers /\ [][NextReversers]_vars

------------------------------------------------------------------------------
(* Properties of GearUpSelected.derive                                      *)

\* derive has returned and was given a red warning
SelectedWithWarning == gus_pc = "done" /\ gear.gear_warn.supplied

\* the first sample of each run of Warning that follows another sample
Onsets ==
    {i \in 1 .. (ALen(gear.gear_down) - 1) :
        /\ gear.gear_warn.array[i].ok /\ gear.gear_warn.array[i].v = "Warning"
        /\ ~(gear.gear_warn.array[i - 1].ok /\ gear.gear_warn.array[i - 1].v = "Warning")}

\* gear down is recorded as Down at sample i
IsDown(i) == gear.gear_down[i].ok /\ gear.gear_down[i].v = "Down"

\* the selection the claim gives sample i
SelectionAt(i) ==
    LET later == {s \in Onsets : s > i}
    IN  IF later # {}
        THEN LET next == CHOOSE s \in later : \A x \in later : s <= x
             IN  IF IsDown(next - 1) THEN "Down" ELSE "Up"
        ELSE LET final == CHOOSE s \in Onsets : \A x \in Onsets : x <= s
             IN  IF IsDown(final - 1) THEN "Up" ELSE "Down"

C30_NoOnsetIsInverse ==
    (SelectedWithWarning /\ Onsets = {}) =>
        \A i \in DOMAIN gus_array :
            gus_array[i] = IF gear.gear_down[i].ok
                           THEN [ok |-> TRUE, v |-> IF IsDown(i) THEN "Down" ELSE "Up"]
                           ELSE MaskedState

------------------------------------------------------------------------------
(* Properties of ThrustReversers.derive                                     *)

\* the supplied parameters that can report Deployed, and all of them
DeployedSources == tr_params.deployed \o tr_params.status

AllSources == DeployedSources \o tr_params.unlocked \o tr_params.transit

\* parameter r of the sequence reports the state at sample i
Reports(sources, r, name, i) == sources[r][i].ok /\ sources[r][i].v = name

AnyReports(sources, name, i) == \E r \in 1 .. Len(sources) : Reports(sources, r, name, i)

AllReport(sources, name, i) == \A r \in 1 .. Len(sources) : Reports(sources, r, name, i)

\* the state the claim gives sample i
ReverserStateAt(i) ==
    IF AllReport(DeployedSources, "Deployed", i) /\ ~AnyReports(AllSources, "In Transit", i)
    THEN 2
    ELSE IF \/ AnyReports(AllSources, "In Transit", i)
            \/ AnyReports(DeployedSources, "Deployed", i)
            \/ AnyReports(AllSources, "Unlocked", i)
    THEN 1
    ELSE 0

\* C23: at a sample where no parameter is masked the output is Deployed (2)
\* when every deployed source reports Deployed and none reports In Transit,
\* In Transit (1) when a source reports In Transit, or some but not all
\* report Deployed, or one reports Unlocked and not all are Deployed, and
\* Stowed (0) otherwise
C23_ReverserState ==
    tr_pc = "done" =>
        \A i \in DOMAIN tr_array :
            (\A r \in 1 .. Len(AllSources) : AllSources[r][i].ok) =>
                tr_array[i] = Valid(ReverserStateAt(i))

------------------------------------------------------------------------------
(* compute_aal for dips with several radio sections, or with none           *)

\* C24: the result of an over_gnd or high dip with two or more radio
\* sections is the clipped radio altitude at every sample of every section
\* that passes the 10,000 ft check
C24_SectionsKeepRadio ==
    (/\ pc = "returned"
     /\ Mode # "land"
     /\ PastEarlyReturns
     /\ \E a, b, c, d \in 0 .. DipLen : InBandRun(a, b) /\ InBandRun(c, d) /\ b < c) =>
        \A a \in 0 .. DipLen, b \in 0 .. DipLen :
            (InBandRun(a, b) /\ ~SensorsDisagree(alt_std, ClippedRadio, Slice(a, b))) =>
                \A i \in a .. (b - 1) : alt_aal[i] = ClippedRadio[i]

\* the radio altitude is never in 0.1 .. 100 ft within the dip
NeverInBand == (~HasRadio) \/ \A i \in DOMAIN alt_std : ~InBandAt(i)

\* pressure altitude less its minimum, not below 0
LandStyleShift ==
    [i \in DOMAIN alt_std |->
        IF alt_std[i].ok THEN Valid(Max2(alt_std[i].v - MaMin(alt_std), 0)) ELSE masked]

\* pressure altitude less the highest ground of the dip
AboveHighestGround ==
    [i \in DOMAIN alt_std |-> MaSub(alt_std[i], Valid(dips[1].highest_ground))]

\* C28 as stated: an over_gnd or high dip without radio altitude in the
\* band, be it None, masked throughout or never in the band, gets the
\* land-style shift of the pressure altitude
C28_WithoutBandRadioShifts ==
    (pc = "returned" /\ Mode # "land" /\ NeverInBand) => alt_aal = LandStyleShift

\* C28 amended: such a dip gets the land-style shift when its radio altitude
\* has a valid sample and the dip is not an over_gnd dip more than 100 ft
\* above its ground; it gets the pressure altitude less highest_ground when
\* the radio altitude is None or masked throughout, or the dip is such an
\* over_gnd dip
C28_ShiftOrHighestGround ==
    (pc = "returned" /\ Mode # "land" /\ NeverInBand) =>
        alt_aal = IF PastEarlyReturns THEN LandStyleShift ELSE AboveHighestGround

\* an over_gnd dip whose radio altitude is valid but never in the band, with
\* the shift, which is not the pressure altitude less highest_ground
C28_Witness ==
    /\ pc = "returned"
    /\ Mode = "over_gnd"
    /\ NeverInBand
    /\ PastEarlyReturns
    /\ alt_aal = LandStyleShift
    /\ alt_aal # AboveHighestGround

\* C29: a land dip with radio altitude in 0.1 .. 100 ft at some sample gets
\* a result, no exception, also when no sample of a radio section is above
\* the bounce threshold
C29_LandWithBandReturns ==
    (/\ pc # "call"
     /\ Mode = "land"
     /\ HasRadio
     /\ \E i \in DOMAIN alt_std : InBandAt(i)) => pc = "returned"

------------------------------------------------------------------------------
(* The dips of type high: merging and the post-pass                         *)

\* extremum j (from 1) is the trough of a V: a fall to it and a rise from it
IsTrough(j) ==
    /\ 1 < j
    /\ j < Len(Idxs)
    /\ Vals[j] < Vals[j - 1]
    /\ Vals[j] < Vals[j + 1]

\* the V around trough j has no usable radio altitude
WithoutRadio(j) ==
    ~(alt_rad.supplied
      /\ \E i \in Idxs[j - 1] .. (Idxs[j + 1] - 1) : alt_rad.array[i].ok)

\* the troughs between extrema a and b
TroughsIn(a, b) == {j \in (a + 1) .. (b - 1) : IsTrough(j)}

\* dip d spans the Vs from extremum a to extremum b, all without radio
\* altitude, and carries the lowest of their troughs
SpansTroughs(d, a, b) ==
    /\ d.slice = Slice(Idxs[a], Idxs[b])
    /\ TroughsIn(a, b) # {}
    /\ \A j \in TroughsIn(a, b) : WithoutRadio(j)
    /\ \A j \in TroughsIn(a, b) : d.alt_std <= Vals[j]
    /\ \E j \in TroughsIn(a, b) : d.alt_std = Vals[j]

\* C25: after the classification loop every dip of type high spans one V
\* or several successive Vs without usable radio altitude, from the opening
\* extremum of the first to the closing extremum of the last, with the
\* lowest of their troughs as alt_std, and no two successive dips are both
\* of type high
C25_HighDipsMerged ==
    pc = "postpass" =>
        /\ \A n \in 1 .. Len(dips) :
              dips[n].type = "high" =>
                  \E a \in 1 .. Len(Idxs), b \in 1 .. Len(Idxs) :
                      a < b /\ SpansTroughs(dips[n], a, b)
        /\ \A n \in 1 .. (Len(dips) - 1) :
              ~(dips[n].type = "high" /\ dips[n + 1].type = "high")
        /\ \A j \in 1 .. Len(Idxs) :
              (IsTrough(j) /\ WithoutRadio(j)) =>
                  \E n \in 1 .. Len(dips) :
                      /\ dips[n].type = "high"
                      /\ dips[n].slice.start <= Idxs[j - 1]
                      /\ Idxs[j + 1] <= dips[n].slice.stop

\* a dip of type high merged from two Vs whose troughs differ, the second
\* the lower
C25_Witness ==
    /\ pc = "postpass"
    /\ \E n \in 1 .. Len(dips), a \in 1 .. Len(Idxs) :
          /\ a + 4 <= Len(Idxs)
          /\ dips[n].type = "high"
          /\ SpansTroughs(dips[n], a, a + 4)
          /\ Vals[a + 3] < Vals[a + 1]

\* C26: after the post-pass every dip of type high has its ground at least
\* 1000 ft below its alt_std, and an interior one has the lowest of the
\* ground of the dip before it, its alt_std less 1000 ft and the ground of
\* the dip after it
C26_HighDipsClearGround ==
    pc = "compute" =>
        \A n \in 1 .. Len(dips) :
            dips[n].type = "high" =>
                /\ dips[n].highest_ground <= dips[n].alt_std - HIGH_DIP_OFFSET
                /\ (1 < n /\ n < Len(dips)) =>
                      dips[n].highest_ground =
                          Min2(dips[n - 1].highest_ground,
                               Min2(dips[n].alt_std - HIGH_DIP_OFFSET,
                                    dips[n + 1].highest_ground))

------------------------------------------------------------------------------
(* The climb overrides of a run with several bands                          *)

\* the first sample of the override of climb band n: 5 seconds before lift
LiftMinus5s(n) == Max2(0, climbs[n].start - (5 * hz))

\* the override of climb band n: the integration of the washed-out
\* acceleration from 5 seconds before lift, blended over the band to the
\* nominal value at the end of the band
ClimbIntegration(n) == ClimbStep(RunNominal, RunWashout, climbs[n])

\* C27: when inertial_vertical_speed returns, the output from 5 seconds
\* before lift to the end of the band is the integration plus the linear
\* blend for every climb band of the run, whatever other bands the run has
C27_ClimbOverridesKept ==
    vpc = "return" =>
        \A n \in 1 .. Len(climbs) :
            \A i \in LiftMinus5s(n) .. (climbs[n].stop - 1) :
                roc[i] = ClimbIntegration(n)[i]

==============================================================================
